---- MODULE Spec2Model ----
(***************************************************************************)
(* A model of the rollup-jinja template compiler: the lexer (Source), the  *)
(* statement parser (Parser), the shunting-yard expression parser (Yard)   *)
(* and the entry point compile().  Source text is a sequence of one-       *)
(* character strings; tokens and AST nodes are records.  A JavaScript      *)
(* property that is absent reads as undefined: it is modelled by the       *)
(* record Undefined (nodes, locations) or by the empty sequence (the       *)
(* `value` of a token that has none).                                      *)
(***************************************************************************)
EXTENDS Integers, Sequences, FiniteSets, TLC

VARIABLES
  code,     \* Source.code: the template text
  offset,   \* Source.offset
  line,     \* Source.line
  column,   \* Source.column
  events,   \* Parser.events: the pushback buffer
  stack,    \* Parser.stack: the open contexts, root first
  blocks,   \* Parser.blocks: name-keyed table, in insertion order
  macros,   \* Parser.macros: name-keyed table, in insertion order
  start,    \* the local `start` of Parser.process(): where the text run began
  pc,       \* position inside compile(): process, generate, translate, done, error
  err,      \* the error thrown out of compile(), NoErr when none
  ast,      \* the Template returned by Parser.generate(), Undefined before
  token,    \* the token the last direct call of Source.next returned, NoToken before
  withStrings,  \* the argument `strings` of that call
  program   \* the Program returned by compile(), Undefined before

vars == <<code, offset, line, column, events, stack, blocks, macros, start, pc, err, ast,
          token, withStrings, program>>

----------------------------------------------------------------------------
(* JavaScript values *)

Undefined == [type |-> "undefined"]
NoErr == [name |-> "none"]

\* a plain `new Error(message)`
PlainError(message) == [name |-> "Error", message |-> message, location |-> Undefined]

\* the TypeError the engine raises when a property of undefined is read
TypeError == [name |-> "TypeError", message |-> "property of undefined", location |-> Undefined]

\* new SyntaxError(location, message): location.{start,end} are copied and the
\* message is prefixed with (line:column) of location.start, which must exist
SyntaxError(location, message) ==
  IF location = Undefined \/ location.start = Undefined THEN TypeError
  ELSE [name |-> "SyntaxError",
        message |-> [line |-> location.start.line, column |-> location.start.column,
                     text |-> message],
        location |-> [start |-> location.start,
                      end |-> IF "end" \in DOMAIN location THEN location.end
                              ELSE Undefined]]

----------------------------------------------------------------------------
(* Source: the lexer *)

\* the fixed symbol table: lexeme, depth (0 = one character, 1 = two characters)
SYMBOLS == <<
  [sym |-> <<"!">>,      depth |-> 0],
  [sym |-> <<"!", "=">>, depth |-> 1],
  [sym |-> <<"%">>,      depth |-> 0],
  [sym |-> <<"%", "}">>, depth |-> 1],
  [sym |-> <<"(">>,      depth |-> 0],
  [sym |-> <<")">>,      depth |-> 0],
  [sym |-> <<"*">>,      depth |-> 0],
  [sym |-> <<"*", "*">>, depth |-> 1],
  [sym |-> <<"+">>,      depth |-> 0],
  [sym |-> <<",">>,      depth |-> 0],
  [sym |-> <<"-">>,      depth |-> 0],
  [sym |-> <<".">>,      depth |-> 0],
  [sym |-> <<"/">>,      depth |-> 0],
  [sym |-> <<"<">>,      depth |-> 0],
  [sym |-> <<"<", "=">>, depth |-> 1],
  [sym |-> <<"=">>,      depth |-> 0],
  [sym |-> <<"=", "=">>, depth |-> 1],
  [sym |-> <<">">>,      depth |-> 0],
  [sym |-> <<">", "=">>, depth |-> 1],
  [sym |-> <<"{">>,      depth |-> 0],
  [sym |-> <<"{", "%">>, depth |-> 1],
  [sym |-> <<"{", "{">>, depth |-> 1],
  [sym |-> <<"|">>,      depth |-> 0],
  [sym |-> <<"}">>,      depth |-> 0],
  [sym |-> <<"}", "}">>, depth |-> 1] >>

\* /\s/, /\d/, /\w/ and the symbol class of Source.next, over the characters used
Whitespace == {" ", "\n", "\t"}
Digits == {"0", "1", "2", "3", "4", "5", "6", "7", "8", "9"}
WordChars == Digits \cup {"_"} \cup
  {"a", "b", "c", "d", "e", "f", "g", "h", "i", "j", "k", "l", "m",
   "n", "o", "p", "q", "r", "s", "t", "u", "v", "w", "x", "y", "z"}
Quotes == {"\"", "'"}
SymbolClass == {"-", "<", ">", ",", ".", "/", "{", "}", "[", "]", "!", "#",
                "%", "*", "(", ")", "+", "=", "|"}

\* Source.eos at a location
Eos(l) == l.offset >= Len(code)

\* Source.chr at a location: the current character, '' past the end
Chr(l) == IF l.offset < Len(code) THEN code[l.offset + 1] ELSE ""

\* Source.location from the cursor fields
Loc(o, ln, col) == [offset |-> o, line |-> ln, column |-> col]

\* Source.nextchr: advance, then count a newline when the NEW character is one
NextChr(l) ==
  IF Chr([offset |-> l.offset + 1]) = "\n"
    THEN Loc(l.offset + 1, l.line + 1, 0)
    ELSE Loc(l.offset + 1, l.line, l.column + 1)

\* Source.substr(start, end)
Substr(s, e) ==
  LET n == IF e.offset - s.offset > 0 THEN e.offset - s.offset ELSE 0
      m == IF s.offset + n <= Len(code) THEN n
           ELSE IF Len(code) > s.offset THEN Len(code) - s.offset ELSE 0
  IN [i \in 1..m |-> code[s.offset + i]]

\* `while (this.chr.match(class)) this.nextchr()`
RECURSIVE SkipWhile(_, _)
SkipWhile(l, class) ==
  IF Chr(l) \in class THEN SkipWhile(NextChr(l), class) ELSE l

\* the string body loop without the skip after a backslash
RECURSIVE SkipStringRaw(_, _)
SkipStringRaw(l, terminator) ==
  IF ~Eos(l) /\ Chr(l) # terminator THEN SkipStringRaw(NextChr(l), terminator) ELSE l

\* the body of the string branch: run to the terminator, a backslash skips a character
RECURSIVE SkipString(_, _)
SkipString(l, terminator) ==
  IF ~Eos(l) /\ Chr(l) # terminator
    THEN SkipString(NextChr(IF Chr(l) = "\\" THEN NextChr(l) ELSE l), terminator)
    ELSE l

\* the multi-character symbol resolver: the loop over SYMBOLS of Source.next
RECURSIVE SymbolLoop(_, _, _, _)
SymbolLoop(i, depth, l, sym) ==
  IF i > Len(SYMBOLS) \/ depth > SYMBOLS[i].depth
    THEN [sym |-> sym, loc |-> l]
  ELSE IF depth # SYMBOLS[i].depth \/ Chr(l) # SYMBOLS[i].sym[depth + 1]
    THEN SymbolLoop(i + 1, depth, l, sym)
  ELSE SymbolLoop(i + 1, depth + 1, NextChr(l),
                  IF depth + 1 = Len(SYMBOLS[i].sym) THEN SYMBOLS[i].sym ELSE sym)

\* Number(lexeme) in canonical form: the digits, without a trailing "." or
\* trailing zeros of the fraction, and without leading zeros
RECURSIVE StripTrailing(_)
StripTrailing(s) ==
  IF s = <<>> THEN s
  ELSE IF s[Len(s)] = "0" /\ \E i \in 1..Len(s): s[i] = "." THEN StripTrailing(SubSeq(s, 1, Len(s) - 1))
  ELSE IF s[Len(s)] = "." THEN SubSeq(s, 1, Len(s) - 1)
  ELSE s

RECURSIVE StripLeading(_)
StripLeading(s) ==
  IF Len(s) > 1 /\ s[1] = "0" /\ s[2] # "." THEN StripLeading(Tail(s)) ELSE s

NumberValue(lexeme) == StripLeading(StripTrailing(lexeme))

Token(type, value, s, e) == [type |-> type, value |-> value, start |-> s, end |-> e]

\* the token Source.next returns: `ret` with start and end; r is the lexeme's
\* type, the location after it, and for a Symbol its table entry
LexToken(s, r) ==
  [tok |-> Token(r.type,
                 IF r.type = "Number" THEN NumberValue(Substr(s, r.loc))
                 ELSE IF r.type = "Identifier" THEN Substr(s, r.loc)
                 ELSE IF r.type = "Symbol" THEN r.sym
                 ELSE IF r.type = "Character" THEN <<Chr([offset |-> r.loc.offset - 1])>>
                 ELSE <<>>,
                 s, r.loc),
   loc |-> r.loc]

Lexeme(type, e) == [type |-> type, loc |-> e, sym |-> <<>>]

\* `if (this.chr === '.')` of the Number branch
Fraction(a) == IF Chr(a) = "." THEN SkipWhile(NextChr(a), Digits) ELSE a

\* the end of the symbol branch and the `if (!ret)` after the branches
SymbolOrCharacter(s, r) ==
  IF r.sym # <<>> THEN [type |-> "Symbol", loc |-> r.loc, sym |-> r.sym]
  \* ret was set to EndOfStream and no later branch replaced it
  ELSE IF Eos(s) THEN Lexeme("EndOfStream", s)
  \* a Character holding the CURRENT character, then nextchr()
  ELSE Lexeme("Character", NextChr(r.loc))

\* the branches of Source.next at the first character s of a lexeme
Branch(s, strings) ==
  IF Chr(s) \in Digits THEN Lexeme("Number", Fraction(SkipWhile(s, Digits)))
  ELSE IF Chr(s) \in WordChars THEN Lexeme("Identifier", SkipWhile(s, WordChars))
  ELSE IF strings /\ Chr(s) \in Quotes
    THEN Lexeme("String", NextChr(SkipString(NextChr(s), Chr(s))))
  ELSE SymbolOrCharacter(s, IF Chr(s) \in SymbolClass THEN SymbolLoop(1, 0, s, <<>>)
                            ELSE [sym |-> <<>>, loc |-> s])

LexAt(s, strings) == LexToken(s, Branch(s, strings))

\* Source.next(strings) from location l0: the token and the location after it
SourceNext(l0, strings) == LexAt(SkipWhile(l0, Whitespace), strings)
----------------------------------------------------------------------------
(* Yard: the shunting-yard expression parser *)

\* the synthetic call operator `{ type: 'Call', value: CallOp }`
CallOp == <<"CallOp">>
CallToken == [type |-> "Call", value |-> CallOp, start |-> Undefined, end |-> Undefined]

\* the sentinel `{ type: 'ArgListGuard' }` written to `out` below a call's arguments
ArgListGuard == [type |-> "ArgListGuard", start |-> Undefined, end |-> Undefined]

\* the operator table: precedence and associativity by operator value
OPERATORS == {
  [op |-> <<"!", "=">>, precedence |-> 200, associativity |-> "left"],
  [op |-> <<"%">>,      precedence |-> 400, associativity |-> "left"],
  [op |-> <<"*">>,      precedence |-> 400, associativity |-> "left"],
  [op |-> <<"*", "*">>, precedence |-> 500, associativity |-> "right"],
  [op |-> <<"+">>,      precedence |-> 300, associativity |-> "left"],
  [op |-> <<"-">>,      precedence |-> 300, associativity |-> "left"],
  [op |-> <<".">>,      precedence |-> 600, associativity |-> "left"],
  [op |-> <<"/">>,      precedence |-> 400, associativity |-> "left"],
  [op |-> <<"<">>,      precedence |-> 200, associativity |-> "left"],
  [op |-> <<"<", "=">>, precedence |-> 200, associativity |-> "left"],
  [op |-> <<"=">>,      precedence |-> 100, associativity |-> "left"],
  [op |-> <<"=", "=">>, precedence |-> 200, associativity |-> "left"],
  [op |-> <<">">>,      precedence |-> 200, associativity |-> "left"],
  [op |-> <<">", "=">>, precedence |-> 200, associativity |-> "left"],
  [op |-> <<"(">>,      precedence |-> 0,   associativity |-> "left"],
  [op |-> <<"|">>,      precedence |-> 50,  associativity |-> "left"],
  [op |-> CallOp,       precedence |-> 550, associativity |-> "left"] }

\* new Yard()
NewYard == [stack |-> <<>>, out |-> <<>>, state |-> "null", end |-> Undefined, err |-> NoErr]

Throw(y, e) == [y EXCEPT !.err = e]

\* Yard.push(op), Yard.write(sym)
YardPush(y, op) == [y EXCEPT !.stack = Append(@, op)]
YardWrite(y, sym) == [y EXCEPT !.out = Append(@, sym)]

\* Yard.back(): pop the last value of `out`; a plain Error when there is none
YardBack(y) ==
  IF y.out = <<>>
    THEN [y |-> Throw(y, PlainError("No more values")), val |-> Undefined]
    ELSE [y |-> [y EXCEPT !.out = SubSeq(@, 1, Len(@) - 1)], val |-> y.out[Len(y.out)]]

\* Yard.operator(op): the table entry of op.value
YardOperator(op) ==
  IF op = Undefined THEN [err |-> TypeError, info |-> Undefined]
  ELSE IF \E r \in OPERATORS: r.op = op.value
    THEN [err |-> NoErr, info |-> CHOOSE r \in OPERATORS: r.op = op.value]
    ELSE [err |-> SyntaxError(op, "is not an operator"), info |-> Undefined]

\* the argument loop without `args.reverse()`
RECURSIVE PopArgsUnreversed(_, _)
PopArgsUnreversed(y, args) ==
  LET b == YardBack(y) IN
  IF b.y.err # NoErr THEN [y |-> b.y, args |-> args]
  ELSE IF b.val.type = "ArgListGuard" THEN [y |-> b.y, args |-> args]
  ELSE PopArgsUnreversed(b.y, Append(args, b.val))

\* the argument loop of the Call branch of writePop: pop values down to the guard
RECURSIVE PopArgs(_, _)
PopArgs(y, args) ==
  LET b == YardBack(y) IN
  IF b.y.err # NoErr THEN [y |-> b.y, args |-> args]
  ELSE IF b.val.type = "ArgListGuard" THEN [y |-> b.y, args |-> args]
  ELSE PopArgs(b.y, <<b.val>> \o args)

\* the two pops every binary branch of writePop starts with: right first, then left
PopTwo(y) ==
  LET Left(r, l) == [y |-> l.y, right |-> r.val, left |-> l.val]
      Right(r) == Left(r, IF r.y.err # NoErr THEN r ELSE YardBack(r.y))
  IN Right(YardBack(y))

\* writePop without the branch for `.`
WriteBinaryPlain(t, op) ==
  IF t.y.err # NoErr THEN t.y
  ELSE IF op.value = <<"|">> THEN
    YardWrite(t.y, [type |-> "Filter", start |-> t.left.start, end |-> t.right.end,
                    filter |-> t.right, value |-> t.left])
  ELSE
    YardWrite(t.y, [type |-> "BinOp",
                    op |-> [type |-> "Operator", value |-> op.value,
                            start |-> op.start, end |-> op.end],
                    start |-> t.left.start, end |-> t.right.end,
                    left |-> t.left, right |-> t.right])

\* the Symbol branches of writePop on the two popped values
WriteBinary(t, op) ==
  IF t.y.err # NoErr THEN t.y
  ELSE IF op.value = <<".">> THEN
    YardWrite(t.y, [type |-> "Member", start |-> t.left.start, end |-> t.right.end,
                    property |-> t.right, object |-> t.left])
  ELSE IF op.value = <<"|">> THEN
    YardWrite(t.y, [type |-> "Filter", start |-> t.left.start, end |-> t.right.end,
                    filter |-> t.right, value |-> t.left])
  ELSE
    YardWrite(t.y, [type |-> "BinOp",
                    op |-> [type |-> "Operator", value |-> op.value,
                            start |-> op.start, end |-> op.end],
                    start |-> t.left.start, end |-> t.right.end,
                    left |-> t.left, right |-> t.right])

\* the Call branch of writePop on the popped arguments a and function f; end is
\* `this._end`
WriteCall(a, end) ==
  LET Function(f) ==
        IF f.y.err # NoErr THEN f.y
        ELSE YardWrite(f.y, [type |-> "FunctionCall", function |-> f.val, args |-> a.args,
                             start |-> f.val.start, end |-> end])
  IN Function(IF a.y.err # NoErr THEN [y |-> a.y, val |-> Undefined] ELSE YardBack(a.y))

\* Yard.writePop(op): build the node of a popped operator from the values of `out`
YardWritePop(y, op) ==
  IF op.type = "Symbol" THEN WriteBinary(PopTwo(y), op)
  ELSE IF op.type = "Call" THEN WriteCall(PopArgs(y, <<>>), y.end)
  ELSE Throw(y, SyntaxError(op, "should not be on the operator stack"))

\* Yard.pop()
YardPop(y) == [y EXCEPT !.stack = SubSeq(@, 1, Len(@) - 1)]
YardTop(y) == y.stack[Len(y.stack)]

\* Yard.writeTerminated(terminator): pop and write operators down to the terminator,
\* which is returned; undefined when the stack runs out first
RECURSIVE YardWriteTerminated(_, _)
YardWriteTerminated(y, terminator) ==
  LET Again(y2) == IF y2.err # NoErr THEN [y |-> y2, val |-> Undefined]
                   ELSE YardWriteTerminated(y2, terminator)
  IN IF y.stack = <<>> THEN [y |-> y, val |-> Undefined]
     ELSE IF YardTop(y) = Undefined
       THEN [y |-> Throw(YardPop(y), TypeError), val |-> Undefined]
     ELSE IF YardTop(y).value = terminator THEN [y |-> YardPop(y), val |-> YardTop(y)]
     ELSE Again(YardWritePop(YardPop(y), YardTop(y)))

\* the comparison without the case of left associativity
PopsTopStrict(opi, topi) == opi.precedence < topi.precedence

\* the comparison of Yard.writeOperator: must the operator on top be written first?
PopsTop(opi, topi) ==
  IF opi.associativity = "left"
    THEN opi.precedence <= topi.precedence
    ELSE opi.precedence < topi.precedence

\* the loop of Yard.writeOperator
RECURSIVE WriteOperatorLoop(_, _)
WriteOperatorTop(y, opi, topi) ==
  LET Again(y2) == IF y2.err # NoErr THEN y2 ELSE WriteOperatorLoop(y2, opi) IN
  IF topi.err # NoErr THEN Throw(YardPop(y), topi.err)
  ELSE IF PopsTop(opi, topi.info) THEN Again(YardWritePop(YardPop(y), YardTop(y)))
  ELSE y

WriteOperatorLoop(y, opi) ==
  IF y.stack = <<>> THEN y ELSE WriteOperatorTop(y, opi, YardOperator(YardTop(y)))

\* Yard.writeOperator(op)
WriteOperatorFrom(y, op, opi) ==
  LET Push(y1) == IF y1.err # NoErr THEN y1 ELSE YardPush(y1, op) IN
  IF opi.err # NoErr THEN Throw(y, opi.err)
  ELSE Push(WriteOperatorLoop(y, opi.info))

YardWriteOperator(y, op) == WriteOperatorFrom(y, op, YardOperator(op))

\* `this._state = state` after a step that may have thrown
YardState(y, state) == IF y.err # NoErr THEN y ELSE [y EXCEPT !.state = state]

\* Yard.process(tok, peek)
YardProcess(y, tok) ==
  LET \* the `(` case: after a callee, the call operator and the guard
      ProcessGuard(w) == IF w.err # NoErr THEN w ELSE YardWrite(w, ArgListGuard)
      ProcessOpen(y1) == IF y1.err # NoErr THEN y1 ELSE YardState(YardPush(y1, tok), "null")
      \* the `,` case: `this.push(this.writeTerminated('('))`
      ProcessComma(w) ==
        IF w.y.err # NoErr THEN w.y ELSE YardState(YardPush(w.y, w.val), "null")
  IN
  IF tok.type = "Identifier" THEN
    YardState(YardWrite(y, [type |-> "Variable", name |-> tok.value,
                            start |-> tok.start, end |-> tok.end]), "maybe-call")
  ELSE IF tok.type = "Number" THEN YardState(YardWrite(y, tok), "number")
  ELSE IF tok.type = "String" THEN YardState(YardWrite(y, tok), "string")
  ELSE IF tok.type = "Symbol" THEN
    IF tok.value = <<"(">> THEN
      ProcessOpen(IF y.state = "maybe-call" THEN ProcessGuard(YardWriteOperator(y, CallToken))
                  ELSE y)
    ELSE IF tok.value = <<")">> THEN
      YardState(YardWriteTerminated([y EXCEPT !.end = tok.end], <<"(">>).y, "maybe-call")
    ELSE IF tok.value = <<",">> THEN
      ProcessComma(YardWriteTerminated(y, <<"(">>))
    ELSE YardState(YardWriteOperator(y, tok), "null")
  ELSE Throw(y, SyntaxError(tok, "unexpected token"))

\* Yard.finish(): drain the operator stack; the value left in `out`, undefined if none
RECURSIVE YardFinish(_)
YardFinish(y) ==
  LET FinishAgain(y2) ==
        IF y2.err # NoErr THEN [y |-> y2, val |-> Undefined] ELSE YardFinish(y2)
  IN
  IF y.stack # <<>> THEN
    IF YardTop(y) = Undefined THEN [y |-> Throw(YardPop(y), TypeError), val |-> Undefined]
    ELSE IF YardTop(y).type = "Symbol" /\ YardTop(y).value = <<"(">>
      THEN [y |-> Throw(YardPop(y), SyntaxError(YardTop(y), "Mismatched parenthesis")),
            val |-> Undefined]
    ELSE FinishAgain(YardWritePop(YardPop(y), YardTop(y)))
  ELSE IF Len(y.out) > 1 THEN
    [y |-> Throw(y, SyntaxError(y.out[2], "Expression produced more than one value")),
     val |-> Undefined]
  ELSE [y |-> y, val |-> IF y.out = <<>> THEN Undefined ELSE y.out[1]]
----------------------------------------------------------------------------
(* Parser: the statement parser.  Its methods are operators on the record  *)
(* p of the parser's fields, with the Source cursor in p.loc.  A method    *)
(* that throws leaves the error in p.err and the fields as they were at    *)
(* the throw; every method is the identity on a state that has thrown.     *)

Null == [type |-> "null"]

\* the keywords, as the lexer delivers them
Kw == [
  if        |-> <<"i", "f">>,
  elif      |-> <<"e", "l", "i", "f">>,
  else      |-> <<"e", "l", "s", "e">>,
  endif     |-> <<"e", "n", "d", "i", "f">>,
  for       |-> <<"f", "o", "r">>,
  in        |-> <<"i", "n">>,
  endfor    |-> <<"e", "n", "d", "f", "o", "r">>,
  block     |-> <<"b", "l", "o", "c", "k">>,
  endblock  |-> <<"e", "n", "d", "b", "l", "o", "c", "k">>,
  macro     |-> <<"m", "a", "c", "r", "o">>,
  endmacro  |-> <<"e", "n", "d", "m", "a", "c", "r", "o">>,
  call      |-> <<"c", "a", "l", "l">>,
  endcall   |-> <<"e", "n", "d", "c", "a", "l", "l">>,
  filter    |-> <<"f", "i", "l", "t", "e", "r">>,
  endfilter |-> <<"e", "n", "d", "f", "i", "l", "t", "e", "r">>,
  set       |-> <<"s", "e", "t">> ]

\* a token standing for "no token was read": the method had already thrown
NoToken == Token("None", <<>>, Undefined, Undefined)

\* new Scope(start) and Scope.generate(end, body)
NewScope(s) == [variables |-> <<>>, start |-> s]
ScopeGenerate(scope, end, body) ==
  [type |-> "Scope", variables |-> scope.variables, start |-> scope.start,
   body |-> body, end |-> end]

\* an entry of Parser.stack; the fields a context lacks are undefined (arms: empty)
Context(statement, scope, arms, arm, template) ==
  [statement |-> statement, scope |-> scope, body |-> <<>>, start |-> Undefined,
   arms |-> arms, arm |-> arm, template |-> template]

\* Parser.error(location, message)
PError(p, location, message) == [p EXCEPT !.err = SyntaxError(location, message)]

\* next() that always asks the lexer
PNextFresh(p, strings) ==
  IF p.err # NoErr THEN [p |-> p, tok |-> NoToken]
  ELSE LET r == SourceNext(p.loc, strings) IN [p |-> [p EXCEPT !.loc = r.loc], tok |-> r.tok]

\* Parser.next(strings): the pushback buffer first, the lexer otherwise
PNext(p, strings) ==
  LET Lexed(r) == [p |-> [p EXCEPT !.loc = r.loc], tok |-> r.tok] IN
  IF p.err # NoErr THEN [p |-> p, tok |-> NoToken]
  ELSE IF Len(p.events) > 0
    THEN [p |-> [p EXCEPT !.events = SubSeq(@, 1, Len(@) - 1)], tok |-> p.events[Len(p.events)]]
    ELSE Lexed(SourceNext(p.loc, strings))

\* Parser.putback(event)
PPutback(p, event) ==
  IF p.err # NoErr THEN p ELSE [p EXCEPT !.events = Append(@, event)]

\* Parser.peek(strings): next() and push back
PPeek(p, strings) ==
  LET Back(n) == [p |-> PPutback(n.p, n.tok), tok |-> n.tok] IN Back(PNext(p, strings))

\* the getter Parser.eos: reads a token, pushes it back unless it is EndOfStream
PEos(p) ==
  LET Test(n) ==
        IF n.tok.type = "EndOfStream" THEN [p |-> n.p, val |-> TRUE]
        ELSE [p |-> PPutback(n.p, n.tok), val |-> FALSE]
  IN Test(PNext(p, FALSE))

\* Parser.expect(type, data)
PExpect(p, type, data) ==
  LET Test(n) ==
        IF n.p.err # NoErr THEN n.p
        ELSE IF n.tok.type # type THEN PError(n.p, n.tok, "Expected other token type")
        ELSE IF type \in {"Symbol", "Identifier"} /\ n.tok.value # data
          THEN PError(n.p, n.tok, "Expected other value")
        ELSE n.p
  IN Test(PNext(p, FALSE))

\* Parser.check(type, data)
PCheck(p, type, data) ==
  LET Test(k) ==
        [p |-> k.p,
         val |-> k.tok.type = type /\ (type \in {"Symbol", "Identifier"} => k.tok.value = data)]
  IN Test(PPeek(p, FALSE))

\* Parser.identifier()
PIdentifier(p) ==
  LET Test(n) ==
        IF n.p.err # NoErr THEN n
        ELSE IF n.tok.type # "Identifier"
          THEN [p |-> PError(n.p, n.tok, "Expected identifier"), tok |-> n.tok]
        ELSE n
  IN Test(PNext(p, FALSE))

\* `this.context`: the innermost open context, undefined on an empty stack
PContext(p) == IF p.stack = <<>> THEN Undefined ELSE p.stack[Len(p.stack)]

\* `this.context.<field>`: a TypeError when there is no context
PContextField(p, field) ==
  IF p.err # NoErr THEN [p |-> p, val |-> Undefined]
  ELSE IF p.stack = <<>> THEN [p |-> [p EXCEPT !.err = TypeError], val |-> Undefined]
  ELSE [p |-> p, val |-> p.stack[Len(p.stack)][field]]

\* `this.context.body.push(node)`
PBodyPush(p, node) ==
  IF p.err # NoErr THEN p
  ELSE IF p.stack = <<>> THEN [p EXCEPT !.err = TypeError]
  ELSE [p EXCEPT !.stack[Len(p.stack)].body = Append(@, node)]

\* `this.stack.push(context)`
PStackPush(p, ctx) == IF p.err # NoErr THEN p ELSE [p EXCEPT !.stack = Append(@, ctx)]

\* `let { ... } = this.stack.pop()`: destructuring undefined is a TypeError
PStackPop(p) ==
  IF p.err # NoErr THEN [p |-> p, ctx |-> Context("none", Undefined, <<>>, Undefined, Undefined)]
  ELSE IF p.stack = <<>>
    THEN [p |-> [p EXCEPT !.err = TypeError],
          ctx |-> Context("none", Undefined, <<>>, Undefined, Undefined)]
  ELSE [p |-> [p EXCEPT !.stack = SubSeq(@, 1, Len(@) - 1)], ctx |-> p.stack[Len(p.stack)]]

\* putText with the text cut one character short
PPutTextShort(p, s, e) ==
  PBodyPush(p, [type |-> "Text", text |-> Substr(s, [e EXCEPT !.offset = @ - 1]),
                start |-> s, end |-> e])

\* Parser.putText(start, end)
PPutText(p, s, e) ==
  PBodyPush(p, [type |-> "Text", text |-> Substr(s, e), start |-> s, end |-> e])

\* is tok one of the terminators of Parser.expression?
IsTerminator(tok, terminators, kwTerminators) ==
  IF tok.type = "Symbol" THEN tok.value \in terminators
  ELSE tok.type = "Identifier" /\ tok.value \in kwTerminators

\* the loop of Parser.expression: feed the yard until a terminator or the end
RECURSIVE ExpressionLoop(_, _, _, _)
\* `yard.process(this.next(true), this.peek(true))`
ExpressionProcess(n, y, terminators, kwTerminators) ==
  LET Again(k2, y2) ==
        IF y2.err # NoErr THEN [p |-> [k2.p EXCEPT !.err = y2.err], y |-> y2]
        ELSE ExpressionLoop(k2.p, y2, terminators, kwTerminators)
  IN Again(PPeek(n.p, TRUE), YardProcess(y, n.tok))

ExpressionPeeked(k, y, terminators, kwTerminators) ==
  IF IsTerminator(k.tok, terminators, kwTerminators) THEN [p |-> k.p, y |-> y]
  ELSE ExpressionProcess(PNext(k.p, TRUE), y, terminators, kwTerminators)

ExpressionTest(e, y, terminators, kwTerminators) ==
  IF e.val THEN [p |-> e.p, y |-> y]
  ELSE ExpressionPeeked(PPeek(e.p, TRUE), y, terminators, kwTerminators)

ExpressionLoop(p, y, terminators, kwTerminators) ==
  ExpressionTest(PEos(p), y, terminators, kwTerminators)

\* Parser.expression(terminators, kwTerminators)
ExpressionFinish(l) ==
  LET Value(f) ==
        IF l.p.err # NoErr THEN [p |-> l.p, val |-> Undefined]
        ELSE IF f.y.err # NoErr THEN [p |-> [l.p EXCEPT !.err = f.y.err], val |-> Undefined]
        ELSE [p |-> l.p, val |-> f.val]
  IN Value(YardFinish(l.y))

PExpression(p, terminators, kwTerminators) ==
  IF p.err # NoErr THEN [p |-> p, val |-> Undefined]
  ELSE ExpressionFinish(ExpressionLoop(PPeek(p, TRUE).p, NewYard, terminators, kwTerminators))

\* the filter loop of Parser.putValue: `while (this.peek().value === '|')`
RECURSIVE FilterLoop(_, _)
FilterLoop(p, filters) ==
  LET Again(f) ==
        IF f.p.err # NoErr THEN [p |-> f.p, val |-> filters]
        ELSE FilterLoop(f.p, Append(filters, f.val))
      Test(k) ==
        IF k.p.err # NoErr THEN [p |-> k.p, val |-> filters]
        ELSE IF k.tok.value # <<"|">> THEN [p |-> k.p, val |-> filters]
        ELSE Again(PExpression(PNext(k.p, FALSE).p, {<<"|">>, <<"}", "}">>}, {}))
  IN Test(PPeek(p, FALSE))

\* putValue with `}}` as the only terminator of the value
PPutValueFolded(p) ==
  LET Push(v, fs, s) ==
        PBodyPush(s.p, [type |-> "PutValue", value |-> v.val, filters |-> fs.val,
                        start |-> s.val, end |-> fs.p.loc])
      Close(v, fs) ==
        Push(v, fs, PContextField(PExpect(fs.p, "Symbol", <<"}", "}">>), "start"))
      Filters(v) == Close(v, FilterLoop(v.p, <<>>))
  IN Filters(PExpression(p, {<<"}", "}">>}, {}))

\* Parser.putValue()
PPutValue(p) ==
  LET Push(v, fs, s) ==
        PBodyPush(s.p, [type |-> "PutValue", value |-> v.val, filters |-> fs.val,
                        start |-> s.val, end |-> fs.p.loc])
      Close(v, fs) ==
        Push(v, fs, PContextField(PExpect(fs.p, "Symbol", <<"}", "}">>), "start"))
      Filters(v) == Close(v, FilterLoop(v.p, <<>>))
  IN Filters(PExpression(p, {<<"|">>, <<"}", "}">>}, {}))

\* the loop of Parser.pattern()
RECURSIVE PatternLoop(_, _)
PatternLoop(p, names) ==
  LET Variable(n) == [type |-> "Variable", name |-> n.tok.value,
                      start |-> n.tok.start, end |-> n.tok.end]
      More(n, c) ==
        IF ~c.val THEN [p |-> c.p, val |-> Append(names, Variable(n))]
        ELSE PatternLoop(PNext(c.p, FALSE).p, Append(names, Variable(n)))
      Name(n) ==
        IF n.p.err # NoErr THEN [p |-> n.p, val |-> names]
        ELSE More(n, PCheck(n.p, "Symbol", <<",">>))
  IN Name(PIdentifier(p))

\* Parser.pattern(): one name is a Variable, several an Unpack
PPattern(p) ==
  LET Names(k, l) ==
        IF l.p.err # NoErr THEN [p |-> l.p, val |-> Undefined]
        ELSE IF Len(l.val) > 1
          THEN [p |-> l.p, val |-> [type |-> "Unpack", names |-> l.val,
                                    start |-> k.tok.start, end |-> l.val[Len(l.val)].end]]
        ELSE [p |-> l.p, val |-> l.val[1]]
      Start(k) == Names(k, PatternLoop(k.p, <<>>))
  IN Start(PPeek(p, FALSE))

\* Parser.literal()
PLiteral(p) ==
  LET Test(n) ==
        IF n.p.err # NoErr THEN [p |-> n.p, val |-> Undefined]
        ELSE IF n.tok.type = "Number" THEN [p |-> n.p, val |-> n.tok]
        ELSE [p |-> PError(n.p, n.tok, "Expected a literal value"), val |-> Undefined]
  IN Test(PNext(p, FALSE))

\* the first arm of an if, the arm of an elif or of an else
Arm(s, condition) ==
  [type |-> "Arm", start |-> s, condition |-> condition, body |-> <<>>, end |-> Undefined]

\* Parser.if(id)
PIf(p) ==
  LET Push(c, s, g) ==
        PStackPush(g.p, Context("ifStatement", g.val, <<>>, Arm(s.val, c.val), Undefined))
      Scope(c, s) == Push(c, s, PContextField(s.p, "scope"))
      Start(c) == Scope(c, PContextField(c.p, "start"))
  IN Start(PExpression(p, {<<"%", "}">>}, {}))

\* the common start of endif, elif and else: pop the arm's context and close the
\* arm, whose body is the array the context filled
CloseArm(p) ==
  LET Close(t) ==
        IF t.p.err # NoErr THEN [p |-> t.p, arms |-> <<>>, start |-> Undefined]
        ELSE IF t.ctx.arm = Undefined
          THEN [p |-> [t.p EXCEPT !.err = TypeError], arms |-> <<>>, start |-> Undefined]
        ELSE [p |-> t.p,
              arms |-> Append(t.ctx.arms,
                              [t.ctx.arm EXCEPT !.end = t.p.loc, !.body = t.ctx.body]),
              start |-> t.ctx.start]
  IN Close(PStackPop(p))

\* Parser.endif(id)
PEndif(p) ==
  LET Push(a, s) ==
        PBodyPush(s.p, [type |-> "CaseStatement", arms |-> a.arms,
                        start |-> s.val, end |-> a.p.loc])
      Start(a) == Push(a, PContextField(a.p, "start"))
  IN Start(CloseArm(p))

\* elif starting a new list of arms
PElifFresh(p) ==
  LET Push(a, c, g) ==
        PStackPush(g.p, Context("ifStatement", g.val, <<>>, Arm(a.start, c.val), Undefined))
      Scope(a, c) == Push(a, c, PContextField(c.p, "scope"))
      Condition(a) == Scope(a, PExpression(a.p, {<<"%", "}">>}, {}))
  IN Condition(CloseArm(p))

\* Parser.elif(id)
PElif(p) ==
  LET Push(a, c, g) ==
        PStackPush(g.p, Context("ifStatement", g.val, a.arms, Arm(a.start, c.val), Undefined))
      Scope(a, c) == Push(a, c, PContextField(c.p, "scope"))
      Condition(a) == Scope(a, PExpression(a.p, {<<"%", "}">>}, {}))
  IN Condition(CloseArm(p))

\* else with the Boolean at the cursor, after the keyword
PElseAtCursor(p) ==
  LET Push(a, g) ==
        PStackPush(g.p, Context("elseStatement", g.val, a.arms,
                                Arm(a.start, [type |-> "Boolean", value |-> <<"true">>,
                                              start |-> a.p.loc, end |-> a.p.loc]),
                                Undefined))
      Scope(a) == Push(a, PContextField(a.p, "scope"))
  IN Scope(CloseArm(p))

\* Parser.else(id)
PElse(p) ==
  LET Push(a, g) ==
        PStackPush(g.p, Context("elseStatement", g.val, a.arms,
                                Arm(a.start, [type |-> "Boolean", value |-> <<"true">>,
                                              start |-> a.start, end |-> a.start]),
                                Undefined))
      Scope(a) == Push(a, PContextField(a.p, "scope"))
  IN Scope(CloseArm(p))

\* for with `%}` as the only terminator of the iterable
PForGreedy(p) ==
  LET Push(pat, it, f, s) ==
        PStackPush(s.p, Context("forStatement", NewScope(s.p.loc), <<>>, Undefined,
                                [type |-> "ForLoop", alternative |-> Null, start |-> s.val,
                                 pattern |-> pat.val, iterable |-> it.val, filter |-> f.val,
                                 body |-> Undefined, end |-> Undefined]))
      Start(pat, it, f) == Push(pat, it, f, PContextField(f.p, "start"))
      Filter(pat, it, c) ==
        Start(pat, it, IF c.p.err = NoErr /\ c.val
                         THEN PExpression(PNext(c.p, FALSE).p, {<<"%", "}">>}, {})
                         ELSE [p |-> c.p, val |-> Null])
      If(pat, it) == Filter(pat, it, PCheck(it.p, "Identifier", Kw.if))
      In(pat) == If(pat, PExpression(PExpect(pat.p, "Identifier", Kw.in), {<<"%", "}">>}, {}))
  IN In(PPattern(p))

\* Parser.for(id)
PFor(p) ==
  LET Push(pat, it, f, s) ==
        PStackPush(s.p, Context("forStatement", NewScope(s.p.loc), <<>>, Undefined,
                                [type |-> "ForLoop", alternative |-> Null, start |-> s.val,
                                 pattern |-> pat.val, iterable |-> it.val, filter |-> f.val,
                                 body |-> Undefined, end |-> Undefined]))
      Start(pat, it, f) == Push(pat, it, f, PContextField(f.p, "start"))
      Filter(pat, it, c) ==
        Start(pat, it, IF c.p.err = NoErr /\ c.val
                         THEN PExpression(PNext(c.p, FALSE).p, {<<"%", "}">>}, {})
                         ELSE [p |-> c.p, val |-> Null])
      If(pat, it) == Filter(pat, it, PCheck(it.p, "Identifier", Kw.if))
      In(pat) == If(pat, PExpression(PExpect(pat.p, "Identifier", Kw.in), {<<"%", "}">>}, {Kw.if}))
  IN In(PPattern(p))

\* `template.body = scope.generate(start, body)` on a popped context
WithBody(ctx) ==
  [ctx.template EXCEPT !.body = ScopeGenerate(ctx.scope, ctx.start, ctx.body)]

\* Parser.elsefor(id)
PElsefor(p) ==
  LET Push(t, g) ==
        IF t.p.err # NoErr THEN t.p
        ELSE IF t.ctx.template = Undefined THEN [t.p EXCEPT !.err = TypeError]
        ELSE IF t.ctx.scope = Undefined THEN [t.p EXCEPT !.err = TypeError]
        ELSE PStackPush(g.p, Context("forElseStatement", g.val, <<>>, Undefined,
                                     WithBody(t.ctx)))
      Scope(t) == Push(t, PContextField(t.p, "scope"))
  IN Scope(PStackPop(p))

\* Parser.endforelse(id); the array given to `alternative` is wrapped in a record,
\* so that the field holds a record whether it is null or a list
PEndforelse(p) ==
  LET Close(t) ==
        IF t.p.err # NoErr THEN t.p
        ELSE IF t.ctx.template = Undefined THEN [t.p EXCEPT !.err = TypeError]
        ELSE PBodyPush(t.p, [t.ctx.template EXCEPT !.alternative = [list |-> t.ctx.body],
                                                   !.end = t.p.loc])
  IN Close(PStackPop(p))

\* the common body of endfor, endmacro, endcall, endfilter: pop the context and
\* close its template with the body as a Scope
CloseTemplate(p) ==
  LET Close(t) ==
        IF t.p.err # NoErr THEN [p |-> t.p, template |-> Undefined]
        ELSE IF t.ctx.template = Undefined
          THEN [p |-> [t.p EXCEPT !.err = TypeError], template |-> Undefined]
        ELSE IF t.ctx.scope = Undefined
          THEN [p |-> [t.p EXCEPT !.err = TypeError], template |-> Undefined]
        ELSE [p |-> t.p, template |-> [WithBody(t.ctx) EXCEPT !.end = t.p.loc]]
  IN Close(PStackPop(p))

\* `this.context.body.push(template)` of endfor, endcall, endfilter
PushTemplate(c) == PBodyPush(c.p, c.template)

\* Parser.endfor(id)
PEndfor(p) == PushTemplate(CloseTemplate(p))

\* the key of a plain object that is no property of its own: reading it yields
\* the prototype, writing an object to it replaces the prototype
ProtoName == <<"_", "_", "p", "r", "o", "t", "o", "_", "_">>

\* Object.prototype, what `{}[ProtoName]` yields: it has neither body nor args
ObjectPrototype == [type |-> "Object.prototype"]

\* `table[name] = template` on a name-keyed object: a known key keeps its place;
\* the entry under ProtoName is the prototype the object got, the others are
\* its own properties
TableSet(table, template) ==
  IF \E i \in 1..Len(table): table[i].name.value = template.name.value
    THEN [i \in 1..Len(table) |->
            IF table[i].name.value = template.name.value THEN template ELSE table[i]]
    ELSE Append(table, template)

\* Object.values(table): the own properties, in the order of their first assignment
ObjectValues(table) == SelectSeq(table, LAMBDA t : t.name.value # ProtoName)

\* the end of an argument list entry, in macro(id) and call(id): stop at `)`,
\* otherwise expect `,`
ArgEnd(c, args) ==
  IF c.val THEN [p |-> c.p, val |-> args, more |-> FALSE]
  ELSE [p |-> PExpect(c.p, "Symbol", <<",">>), val |-> args, more |-> TRUE]

\* the argument loop of Parser.macro(id)
RECURSIVE MacroArgs(_, _)
MacroArgs(p, args) ==
  LET Again(x) == IF x.more /\ x.p.err = NoErr THEN MacroArgs(x.p, x.val)
                  ELSE [p |-> x.p, val |-> x.val]
      Push(a, d, k) ==
        IF k.p.err # NoErr THEN [p |-> k.p, val |-> args]
        ELSE Again(ArgEnd(PCheck(k.p, "Symbol", <<")">>),
                          Append(args, [type |-> "Argument", name |-> a.tok,
                                        start |-> a.tok.start, end |-> k.tok.start,
                                        default |-> d.val])))
      End(a, d) == Push(a, d, PPeek(d.p, FALSE))
      Default(a, q) ==
        End(a, IF q.p.err = NoErr /\ q.val THEN PLiteral(PNext(q.p, FALSE).p)
               ELSE [p |-> q.p, val |-> Null])
      Name(a) == Default(a, PCheck(a.p, "Symbol", <<"=">>))
      Closed(c) == IF c.val THEN [p |-> c.p, val |-> args] ELSE Name(PIdentifier(c.p))
      Test(e) == IF e.val THEN [p |-> e.p, val |-> args]
                 ELSE Closed(PCheck(e.p, "Symbol", <<")">>))
  IN Test(PEos(p))

\* the end of macro(id) and call(id): `)`, a peek, and the new context
OpenTemplate(a, statement, template) ==
  LET Push(s) ==
        PStackPush(s.p, Context(statement, NewScope(s.p.loc), <<>>, Undefined,
                                [template EXCEPT !.start = s.val, !.args = a.val]))
  IN Push(PContextField(PPeek(PExpect(a.p, "Symbol", <<")">>), FALSE).p, "start"))

\* Parser.macro(id)
PMacro(p) ==
  LET Name(n) ==
        OpenTemplate(MacroArgs(PExpect(n.p, "Symbol", <<"(">>), <<>>), "macroStatement",
                     [type |-> "Macro", start |-> Undefined, name |-> n.tok,
                      args |-> <<>>, body |-> Undefined, end |-> Undefined])
  IN Name(PIdentifier(p))

\* Parser.endmacro(id)
PEndmacro(p) ==
  LET Set(c) == IF c.p.err # NoErr THEN c.p
                ELSE [c.p EXCEPT !.macros = TableSet(@, c.template)]
  IN Set(CloseTemplate(p))

\* the argument loop of Parser.call(id)
RECURSIVE CallArgs(_, _)
CallArgs(p, args) ==
  LET Again(x) == IF x.more /\ x.p.err = NoErr THEN CallArgs(x.p, x.val)
                  ELSE [p |-> x.p, val |-> x.val]
      Arg(a) ==
        IF a.p.err # NoErr THEN [p |-> a.p, val |-> args]
        ELSE Again(ArgEnd(PCheck(a.p, "Symbol", <<")">>), Append(args, a.val)))
      Test(e) == IF e.val THEN [p |-> e.p, val |-> args]
                 ELSE Arg(PExpression(e.p, {<<",">>, <<")">>}, {}))
  IN Test(PEos(p))

\* Parser.call(id)
PCall(p) ==
  LET Name(n) ==
        OpenTemplate(CallArgs(PExpect(n.p, "Symbol", <<"(">>), <<>>), "callStatement",
                     [type |-> "MacroCall", macro |-> n.tok, start |-> Undefined,
                      args |-> <<>>, body |-> Undefined, end |-> Undefined])
  IN Name(PIdentifier(p))

\* Parser.endcall(id)
PEndcall(p) == PushTemplate(CloseTemplate(p))

\* Parser.filter(id)
PFilter(p) ==
  LET Push(f, s) ==
        PStackPush(s.p, Context("filterStatement", NewScope(s.p.loc), <<>>, Undefined,
                                [type |-> "Filter", start |-> s.val, filter |-> f.val,
                                 body |-> Undefined, end |-> Undefined]))
      Start(f) == Push(f, PContextField(f.p, "start"))
  IN Start(PExpression(p, {<<"%", "}">>}, {}))

\* Parser.endfilter(id)
PEndfilter(p) == PushTemplate(CloseTemplate(p))

\* Parser.set(id)
PSet(p) ==
  LET Push(pat, v, s) ==
        PBodyPush(s.p, [type |-> "Assign", start |-> s.val, end |-> s.p.loc,
                        pattern |-> pat.val, value |-> v.val])
      Start(pat, v) == Push(pat, v, PContextField(v.p, "start"))
      Value(pat) == Start(pat, PExpression(PExpect(pat.p, "Symbol", <<"=">>), {<<"%", "}">>}, {}))
  IN Value(PPattern(p))

\* Parser.block(id)
PBlock(p) ==
  LET Push(n, s) ==
        PStackPush(s.p, Context("blockStatement", NewScope(s.p.loc), <<>>, Undefined,
                                [start |-> s.val, name |-> n.tok]))
      Name(n) == Push(n, PContextField(PPeek(n.p, FALSE).p, "start"))
  IN Name(PIdentifier(p))

\* Parser.endblock(id): the CallBlock is a copy of the template made before the
\* template becomes the Block
PEndblock(p) ==
  LET Set(t, k, b) ==
        IF b.err # NoErr THEN b
        ELSE [b EXCEPT !.blocks =
                TableSet(@, [type |-> "Block", start |-> t.ctx.template.start,
                             name |-> t.ctx.template.name, end |-> k.loc,
                             body |-> ScopeGenerate(t.ctx.scope, t.ctx.start, t.ctx.body)])]
      Call(t, k) ==
        Set(t, k, PBodyPush(k, [type |-> "CallBlock", start |-> t.ctx.template.start,
                                name |-> t.ctx.template.name, end |-> k.loc]))
      Popped(t) ==
        IF t.p.err # NoErr THEN t.p
        ELSE IF t.ctx.template = Undefined THEN [t.p EXCEPT !.err = TypeError]
        ELSE IF t.ctx.scope = Undefined THEN [t.p EXCEPT !.err = TypeError]
        ELSE Call(t, PPeek(t.p, FALSE).p)
  IN Popped(PStackPop(p))

\* the dispatchers a context carries in `statement`: the Parser method a mid or
\* closing keyword selects in that context, "error" for parser.error(id, ...)
elseStatement(id) == IF id = Kw.endif THEN "endif" ELSE "error"

ifStatement(id) ==
  IF id = Kw.else THEN "else"
  ELSE IF id = Kw.elif THEN "elif"
  ELSE elseStatement(id)

forStatement(id) ==
  IF id = Kw.endfor THEN "endfor"
  ELSE IF id = Kw.else THEN "elsefor"
  ELSE "error"

\* the dispatcher after the else of a for, taking a second else
forElseStatementLax(id) ==
  IF id = Kw.endfor THEN "endforelse" ELSE IF id = Kw.else THEN "elsefor" ELSE "error"

forElseStatement(id) == IF id = Kw.endfor THEN "endforelse" ELSE "error"

macroStatement(id) == IF id = Kw.endmacro THEN "endmacro" ELSE "error"

callStatement(id) == IF id = Kw.endcall THEN "endcall" ELSE "error"

filterStatement(id) == IF id = Kw.endfilter THEN "endfilter" ELSE "error"

blockStatement(id) == IF id = Kw.endblock THEN "endblock" ELSE "error"

\* the `statement` of the root context, set in the constructor
rootStatement(id) == "error"

\* `this.context.statement(this, id)`
ContextStatement(ctx, id) ==
  CASE ctx.statement = "rootStatement"    -> rootStatement(id)
    [] ctx.statement = "ifStatement"      -> ifStatement(id)
    [] ctx.statement = "elseStatement"    -> elseStatement(id)
    [] ctx.statement = "forStatement"     -> forStatement(id)
    [] ctx.statement = "forElseStatement" -> forElseStatement(id)
    [] ctx.statement = "macroStatement"   -> macroStatement(id)
    [] ctx.statement = "callStatement"    -> callStatement(id)
    [] ctx.statement = "filterStatement"  -> filterStatement(id)
    [] ctx.statement = "blockStatement"   -> blockStatement(id)

\* the switch of Parser.statement(): the method the keyword id runs
StatementMethod(ctx, id) ==
  IF id = Kw.if THEN "if"
  ELSE IF id = Kw.for THEN "for"
  ELSE IF id = Kw.block THEN "block"
  ELSE IF id = Kw.macro THEN "macro"
  ELSE IF id = Kw.call THEN "call"
  ELSE IF id = Kw.filter THEN "filter"
  ELSE IF id = Kw.set THEN "set"
  ELSE ContextStatement(ctx, id)

\* generate() without the check for open blocks
PGenerateAny(p) ==
  LET Template(t) ==
        [p |-> t.p,
         val |-> [type |-> "Template", extends |-> Null,
                  blocks |-> ObjectValues(t.p.blocks),
                       macros |-> ObjectValues(t.p.macros),
                  body |-> ScopeGenerate(t.ctx.scope, t.p.loc, t.ctx.body),
                  start |-> Loc(0, 1, 0), end |-> t.p.loc]]
  IN Template(PStackPop(p))

\* Parser.generate(): pop the last context; the Template, or 'Unclosed block'
PGenerate(p) ==
  LET Template(t) ==
        IF t.p.err # NoErr THEN [p |-> t.p, val |-> Undefined]
        ELSE IF Len(t.p.stack) > 0
          THEN [p |-> PError(t.p, t.ctx.scope, "Unclosed block"), val |-> Undefined]
        ELSE [p |-> t.p,
              val |-> [type |-> "Template", extends |-> Null,
                       blocks |-> ObjectValues(t.p.blocks),
                       macros |-> ObjectValues(t.p.macros),
                       body |-> ScopeGenerate(t.ctx.scope, t.p.loc, t.ctx.body),
                       start |-> Loc(0, 1, 0), end |-> t.p.loc]]
  IN Template(PStackPop(p))

----------------------------------------------------------------------------
(* compile(): the steps of Parser.process(), then generate() and translate() *)

\* the parser's fields as a record
P == [loc |-> Loc(offset, line, column), events |-> events, stack |-> stack,
      blocks |-> blocks, macros |-> macros, err |-> NoErr]

IsTagOpener(tok) == tok.type = "Symbol" /\ tok.value \in {<<"{", "%">>, <<"{", "{">>}

\* the scan for the next tag with strings lexed: `this.next(true)` in events()
RECURSIVE ScanStrings(_)
ScanStrings(l) ==
  LET Test(r) == IF IsTagOpener(r.tok) THEN [found |-> TRUE, tok |-> r.tok, loc |-> r.loc]
                 ELSE ScanStrings(r.loc)
  IN IF Eos(l) THEN [found |-> FALSE, tok |-> NoToken, loc |-> l]
     ELSE Test(SourceNext(l, TRUE))

\* Source.events() as process() consumes it: lex (strings = false) from l up to
\* the next `{%` or `{{`, or to the end of the source
RECURSIVE Scan(_)
Scan(l) ==
  LET Test(r) == IF IsTagOpener(r.tok) THEN [found |-> TRUE, tok |-> r.tok, loc |-> r.loc]
                 ELSE Scan(r.loc)
  IN IF Eos(l) THEN [found |-> FALSE, tok |-> NoToken, loc |-> l]
     ELSE Test(SourceNext(l, FALSE))

\* the loop body of process() up to the switch: the text before the tag goes to
\* the current body, and the context remembers where the tag starts
AtTag(t) ==
  LET Mark(p) == IF p.stack = <<>> THEN [p EXCEPT !.err = TypeError]
                 ELSE [p EXCEPT !.stack[Len(p.stack)].start = t.tok.start]
  IN Mark(IF t.tok.start.offset - start.offset > 0
            THEN PPutText([P EXCEPT !.loc = t.loc], start, t.tok.start)
            ELSE [P EXCEPT !.loc = t.loc])

\* which method the iteration runs on the tag t, k being what identifier() read
Method(t, k) ==
  IF ~t.found THEN "end"
  ELSE IF k.p.err # NoErr THEN "error"
  ELSE IF t.tok.value = <<"{", "{">> THEN "putValue"
  ELSE StatementMethod(PContext(k.p), k.tok.value)

\* Parser.statement() up to its switch: the keyword read by identifier()
Switch(t, k) == [method |-> Method(t, k), p |-> k.p, tok |-> k.tok]

Enter(t, p) ==
  Switch(t, IF p.err = NoErr /\ t.tok.value = <<"{", "%">>
              THEN PIdentifier(p) ELSE [p |-> p, tok |-> NoToken])

\* the tag the next iteration of the loop of process() stops at
Tag(t) == Enter(t, IF t.found THEN AtTag(t) ELSE [P EXCEPT !.loc = t.loc])

\* the next iteration: its method, the parser before the method runs, the keyword
Keyword == Tag(Scan(Loc(offset, line, column)))

\* the state after an iteration (or the throw that ends compile)
Resume(p) ==
  /\ offset' = p.loc.offset
  /\ line' = p.loc.line
  /\ column' = p.loc.column
  /\ events' = p.events
  /\ stack' = p.stack
  /\ blocks' = p.blocks
  /\ macros' = p.macros
  /\ err' = p.err
  /\ pc' = IF p.err = NoErr THEN "process" ELSE "error"
  /\ start' = IF p.err = NoErr THEN p.loc ELSE start
  /\ UNCHANGED <<code, ast, token, withStrings, program>>

\* a statement method, then the `%}` that statement() expects after it
Statement(method, p) ==
  /\ pc = "process"
  /\ Keyword.method = method
  /\ Resume(PExpect(p, "Symbol", <<"%", "}">>))

PutValue ==
  /\ pc = "process"
  /\ Keyword.method = "putValue"
  /\ Resume(PPutValue(Keyword.p))

StmtIf         == Statement("if", PIf(Keyword.p))
StmtElif       == Statement("elif", PElif(Keyword.p))
StmtElse       == Statement("else", PElse(Keyword.p))
StmtEndif      == Statement("endif", PEndif(Keyword.p))
StmtFor        == Statement("for", PFor(Keyword.p))
StmtElsefor    == Statement("elsefor", PElsefor(Keyword.p))
StmtEndforelse == Statement("endforelse", PEndforelse(Keyword.p))
StmtEndfor     == Statement("endfor", PEndfor(Keyword.p))
StmtMacro      == Statement("macro", PMacro(Keyword.p))
StmtEndmacro   == Statement("endmacro", PEndmacro(Keyword.p))
StmtCall       == Statement("call", PCall(Keyword.p))
StmtEndcall    == Statement("endcall", PEndcall(Keyword.p))
StmtFilter     == Statement("filter", PFilter(Keyword.p))
StmtEndfilter  == Statement("endfilter", PEndfilter(Keyword.p))
StmtSet        == Statement("set", PSet(Keyword.p))
StmtBlock      == Statement("block", PBlock(Keyword.p))
StmtEndblock   == Statement("endblock", PEndblock(Keyword.p))

\* the default of the dispatchers: parser.error(id, 'Invalid statement'); an
\* error identifier() threw stays
Invalid(k) ==
  IF k.p.err # NoErr THEN k.p ELSE PError(k.p, k.tok, "Invalid statement")

\* statement() throws before any method runs: no identifier after `{%`, or a
\* keyword the context's dispatcher rejects with 'Invalid statement'
StmtError ==
  /\ pc = "process"
  /\ Keyword.method = "error"
  /\ Resume(Invalid(Keyword))

\* the text before the EndOfStream that `this.next()` delivers
LastText(n) ==
  IF n.tok.start.offset - start.offset > 0 THEN PPutText(n.p, start, n.tok.start) ELSE n.p

\* the state after process() returned (or threw)
Processed(p) ==
  /\ offset' = p.loc.offset
  /\ line' = p.loc.line
  /\ column' = p.loc.column
  /\ events' = p.events
  /\ stack' = p.stack
  /\ err' = p.err
  /\ pc' = IF p.err = NoErr THEN "generate" ELSE "error"
  /\ UNCHANGED <<code, blocks, macros, start, ast, token, withStrings, program>>

\* the end of process(): no tag is left; `this.next()` delivers the EndOfStream
\* and the text before it goes to the current body
ProcessEnd ==
  /\ pc = "process"
  /\ Keyword.method = "end"
  /\ Processed(LastText(PNext(Keyword.p, FALSE)))

\* the state after parser.generate() returned (or threw)
Generated(g) ==
  /\ stack' = g.p.stack
  /\ err' = g.p.err
  /\ ast' = g.val
  /\ pc' = IF g.p.err = NoErr THEN "translate" ELSE "error"
  /\ UNCHANGED <<code, offset, line, column, events, blocks, macros, start, token, withStrings,
                 program>>

\* parser.generate() in compile()
Generate ==
  /\ pc = "generate"
  /\ Generated(PGenerate(P))

----------------------------------------------------------------------------
(* Codegen: translate(), as far as the error it throws.  ConvertThrows     *)
(* follows Codegen.convert over the Template in evaluation order and       *)
(* yields the first error thrown, NoErr when the lowering returns.         *)

\* `throw new Error(`Unknown node type: ...`)` of Codegen.convert
UnknownNodeType == PlainError("Unknown node type")

\* the engine's RangeError when CallBlock expands a block inside itself without end
RangeError == [name |-> "RangeError", message |-> "Maximum call stack size exceeded",
               location |-> Undefined]

\* the first error of a sequence of outcomes, in order
FirstError(es) ==
  IF \E i \in 1..Len(es): es[i] # NoErr
    THEN es[CHOOSE i \in 1..Len(es): es[i] # NoErr /\ \A j \in 1..(i - 1): es[j] = NoErr]
    ELSE NoErr

\* `this.blocks[name]` and `this.macros[name]`, filled by Codegen.Template
TableGet(table, name) ==
  IF name = ProtoName THEN ObjectPrototype
  ELSE IF \E i \in 1..Len(table): table[i].name.value = name
    THEN table[CHOOSE i \in 1..Len(table): table[i].name.value = name]
    ELSE Undefined

\* the methods of Codegen; `open` holds the blocks whose CallBlock is being expanded
RECURSIVE ConvertThrows(_, _, _)
ConvertThrows(node, tpl, open) ==
  LET Each(nodes) == FirstError([i \in 1..Len(nodes) |-> ConvertThrows(nodes[i], tpl, open)])
  IN
  IF node = Undefined \/ node = Null THEN TypeError
  ELSE IF node.type = "Template" THEN
    FirstError(<<ConvertThrows(node.body, tpl, open), Each(node.macros)>>)
  ELSE IF node.type = "Macro" THEN ConvertThrows(node.body, tpl, open)
  ELSE IF node.type = "Scope" THEN Each(node.body)
  ELSE IF node.type = "Text" THEN NoErr
  ELSE IF node.type = "PutValue" THEN
    FirstError(<<ConvertThrows(node.value, tpl, open), Each(node.filters)>>)
  ELSE IF node.type = "CaseStatement" THEN
    FirstError([i \in 1..Len(node.arms) |->
                  FirstError(<<ConvertThrows(node.arms[i].condition, tpl, open),
                               Each(node.arms[i].body)>>)])
  ELSE IF node.type = "ForLoop" THEN
    FirstError(<<ConvertThrows(node.iterable, tpl, open),
                 ConvertThrows(node.pattern, tpl, open),
                 IF node.filter \in {Null, Undefined} THEN NoErr
                 ELSE ConvertThrows(node.filter, tpl, open),
                 ConvertThrows(node.body, tpl, open),
                 IF node.alternative = Null THEN NoErr ELSE Each(node.alternative.list)>>)
  ELSE IF node.type = "CallBlock" THEN
    LET spec == TableGet(tpl.blocks, node.name.value) IN
    IF spec = Undefined \/ spec = ObjectPrototype THEN TypeError
    ELSE IF node.name.value \in open THEN RangeError
    ELSE ConvertThrows(spec.body, tpl, open \cup {node.name.value})
  ELSE IF node.type = "MacroCall" THEN
    LET macro == TableGet(tpl.macros, node.macro.value) IN
    IF macro = Undefined \/ macro = ObjectPrototype THEN TypeError
    ELSE LET n == IF Len(node.args) <= Len(macro.args) THEN Len(node.args)
                  ELSE Len(macro.args)
         IN Each(SubSeq(node.args, 1, n))
  ELSE IF node.type = "Assign" THEN
    FirstError(<<ConvertThrows(node.pattern, tpl, open), ConvertThrows(node.value, tpl, open)>>)
  ELSE IF node.type = "Filter" THEN
    \* block filters and filter expressions share the type: an expression has no body
    IF "body" \in DOMAIN node
      THEN FirstError(<<ConvertThrows(node.body, tpl, open),
                        ConvertThrows(node.filter, tpl, open)>>)
      ELSE TypeError
  ELSE IF node.type = "BinOp" THEN
    FirstError(<<ConvertThrows(node.left, tpl, open), ConvertThrows(node.right, tpl, open)>>)
  ELSE IF node.type = "Member" THEN
    FirstError(<<ConvertThrows(node.object, tpl, open),
                 ConvertThrows(node.property, tpl, open)>>)
  ELSE IF node.type \in {"Variable", "String"} THEN NoErr
  ELSE UnknownNodeType

----------------------------------------------------------------------------
(* Codegen: the ESTree that translate() returns when it does not throw.    *)
(* Nodes are written without their `loc`; a name the generator writes is   *)
(* one lexeme, a name taken from the template is its character sequence.   *)

\* est.ident, est.literal of a string and of a number, est.this
EstIdent(name) == [type |-> "Identifier", name |-> name]
EstLiteral(value) == [type |-> "Literal", value |-> value]
EstNumber(n) == [type |-> "Literal", number |-> n]
EstThis == [type |-> "ThisExpression"]

\* est.member(object, property)
EstMember(object, property) ==
  [type |-> "MemberExpression", object |-> object,
   computed |-> property.type # "Identifier", property |-> property]

\* est.call(callee, ...args)
EstCall(callee, args) == [type |-> "CallExpression", callee |-> callee, arguments |-> args]

\* est.binop, est.set, est.pincr
EstBinop(left, op, right) ==
  [type |-> "BinaryExpression", operator |-> op, left |-> left, right |-> right]
EstSet(left, op, right) ==
  [type |-> "AssignmentExpression", operator |-> op, left |-> left, right |-> right]
EstPincr(arg) ==
  [type |-> "UpdateExpression", operator |-> "++", prefix |-> TRUE, argument |-> arg]

\* est.yield(expr, delegate)
EstYield(expr, delegate) ==
  [type |-> "YieldExpression", argument |-> expr, delegate |-> delegate]

\* isExpression(node) and statement(node) of estree.js
ExpressionTypes ==
  {"ThisExpression", "ArrayExpression", "ObjectExpression", "FunctionExpression",
   "UnaryExpression", "UpdateExpression", "BinaryExpression", "AssignmentExpression",
   "LogicalExpression", "MemberExpression", "ConditionalExpression", "CallExpression",
   "NewExpression", "SequenceExpression", "Identifier", "Literal",
   "ArrowFunctionExpression", "YieldExpression"}
EstStatement(node) ==
  IF node.type \in ExpressionTypes
    THEN [type |-> "ExpressionStatement", expression |-> node]
    ELSE node

\* a BlockStatement whose add() was called with each of `nodes`
EstBlock(nodes) ==
  [type |-> "BlockStatement", body |-> [i \in 1..Len(nodes) |-> EstStatement(nodes[i])]]

\* est.function / est.generator / est.arrowgen, with the statements added to it
EstFunction(type, id, params, generator, nodes) ==
  [type |-> type, id |-> id, params |-> params, generator |-> generator,
   body |-> EstBlock(nodes)]

\* est.object(props): one Property per [key, value]
EstObject(props) ==
  [type |-> "ObjectExpression",
   properties |-> [i \in 1..Len(props) |->
                     [type |-> "Property", kind |-> "init",
                      method |-> props[i][2].type = "FunctionExpression",
                      value |-> props[i][2], key |-> props[i][1]]]]

\* est.let(vars): one VariableDeclarator per [id, init]
EstLet(decls) ==
  [type |-> "VariableDeclaration", kind |-> "let",
   declarations |-> [i \in 1..Len(decls) |->
                       [type |-> "VariableDeclarator", id |-> decls[i][1],
                        init |-> decls[i][2]]]]

\* new IfStatement(test) with its consequent filled and its alternate set
EstIf(test, nodes, alternate) ==
  [type |-> "IfStatement", test |-> test, consequent |-> EstBlock(nodes),
   alternate |-> alternate]

\* est.for(null, null, update) with its body filled
EstFor(update, nodes) ==
  [type |-> "ForStatement", init |-> Null, test |-> Null, update |-> update,
   body |-> EstBlock(nodes)]

\* est.Object.assign(...exprs), est.iterator(within)
EstObjectAssign(exprs) ==
  EstCall(EstMember(EstIdent(<<"Object">>), EstIdent(<<"assign">>)), exprs)
EstIterator(within) ==
  EstCall(EstMember(within, EstMember(EstIdent(<<"Symbol">>), EstIdent(<<"iterator">>))), <<>>)

\* the identifiers Codegen makes from `this._inx`
ContextIdent(inx) == EstIdent(<<"__j_ctx_", ToString(inx)>>)
LoopIdent(inx) == EstIdent(<<"__j_loop_", ToString(inx)>>)
CountIdent(inx) == EstIdent(<<"__j_count_", ToString(inx)>>)
ItemIdent(inx) == EstIdent(<<"__j_item_", ToString(inx)>>)
MacrosIdent == EstIdent(<<"__j_macros">>)

\* OP_MAP[op] || op
OpMap(op) ==
  IF op = <<"=", "=">> THEN <<"=", "=", "=">>
  ELSE IF op = <<"!", "=">> THEN <<"!", "=", "=">>
  ELSE op

\* the expression converters BinOp, Variable, Member and String; `context` is
\* this.context, `member` the flag of the same name
RECURSIVE Expression(_, _, _)
Expression(node, context, member) ==
  IF node.type = "BinOp" THEN
    EstBinop(Expression(node.left, context, FALSE), OpMap(node.op.value),
             Expression(node.right, context, FALSE))
  ELSE IF node.type = "Variable" THEN
    IF member THEN EstIdent(node.name) ELSE EstMember(context, EstIdent(node.name))
  ELSE IF node.type = "Member" THEN
    EstMember(Expression(node.object, context, FALSE),
              Expression(node.property, context, TRUE))
  ELSE EstLiteral(node.value)

\* PutValue: `value = est.call(filter, value)` for each filter in turn
RECURSIVE Filtered(_, _, _)
Filtered(value, filters, context) ==
  IF filters = <<>> THEN value
  ELSE Filtered(EstCall(Expression(Head(filters), context, FALSE), <<value>>),
                Tail(filters), context)

\* the statement converters: what Codegen.convert(node, block) adds to `block`
\* (out) and the value of this._inx afterwards (inx); `context` is the top of
\* this.stack, which every converter leaves as it found it
RECURSIVE Convert(_, _, _, _)
RECURSIVE ConvertEach(_, _, _, _)
RECURSIVE ConvertArms(_, _, _, _)

ConvertEach(nodes, tpl, context, inx) ==
  IF nodes = <<>> THEN [inx |-> inx, out |-> <<>>]
  ELSE LET h == Convert(Head(nodes), tpl, context, inx)
           t == ConvertEach(Tail(nodes), tpl, context, h.inx)
       IN [inx |-> t.inx, out |-> h.out \o t.out]

\* CaseStatement: the first `block.if(test)` adds an IfStatement, each later one
\* is the alternate of the one before; out is that chain
ConvertArms(arms, tpl, context, inx) ==
  IF arms = <<>> THEN [inx |-> inx, out |-> Null]
  ELSE LET test == Expression(Head(arms).condition, context, FALSE)
           body == ConvertEach(Head(arms).body, tpl, context, inx)
           rest == ConvertArms(Tail(arms), tpl, context, body.inx)
       IN [inx |-> rest.inx, out |-> EstIf(test, body.out, rest.out)]

Convert(node, tpl, context, inx) ==
  IF node.type = "Scope" THEN
    IF Len(node.variables) > 0
      THEN LET vars_ == [i \in 1..Len(node.variables) |->
                           <<EstIdent(node.variables[i]),
                             EstMember(context, EstIdent(node.variables[i]))>>]
               body == ConvertEach(node.body, tpl, ContextIdent(inx), inx + 1)
           IN [inx |-> body.inx,
               out |-> <<EstLet(<<(<<ContextIdent(inx),
                                     EstObjectAssign(<<EstObject(vars_), context>>)>>)>>)>>
                       \o body.out]
      ELSE ConvertEach(node.body, tpl, context, inx)
  ELSE IF node.type = "Text" THEN
    [inx |-> inx, out |-> <<EstYield(EstLiteral(node.text), FALSE)>>]
  ELSE IF node.type = "PutValue" THEN
    [inx |-> inx,
     out |-> <<EstYield(Filtered(Expression(node.value, context, FALSE), node.filters,
                                 context), FALSE)>>]
  ELSE IF node.type = "CaseStatement" THEN
    LET chain == ConvertArms(node.arms, tpl, context, inx)
    IN [inx |-> chain.inx, out |-> <<chain.out>>]
  ELSE IF node.type = "ForLoop" THEN
    LET loop == LoopIdent(inx)
        count == CountIdent(inx)
        item == ItemIdent(inx)
        inner == ContextIdent(inx + 1)
        pat == Expression(node.pattern, inner, FALSE)
        guard == IF node.filter \in {Null, Undefined} THEN <<>>
                 ELSE <<EstIf(Expression(node.filter, inner, FALSE),
                              <<[type |-> "ContinueStatement", label |-> Null]>>, Null)>>
        body == Convert(node.body, tpl, inner, inx + 2)
        else_ == IF node.alternative = Null THEN [inx |-> body.inx, out |-> <<>>]
                 ELSE LET alt == ConvertEach(node.alternative.list, tpl, context, body.inx)
                      IN [inx |-> alt.inx,
                          out |-> <<EstIf(EstBinop(count, <<"=", "=", "=">>, EstNumber(0)),
                                          alt.out, Null)>>]
    IN [inx |-> else_.inx,
        out |-> <<EstLet(<<(<<loop, EstIterator(Expression(node.iterable, context, FALSE))>>),
                           (<<count, EstNumber(0)>>)>>),
                  EstFor(EstPincr(count),
                         <<EstLet(<<(<<item, EstCall(EstMember(loop, EstIdent(<<"next">>)),
                                                     <<>>)>>)>>),
                           EstIf(EstMember(item, EstIdent(<<"done">>)),
                                 <<[type |-> "BreakStatement", label |-> Null]>>, Null),
                           EstLet(<<(<<inner, EstObjectAssign(<<EstObject(<<>>), context>>)>>)>>),
                           EstSet(pat, <<"=">>, EstMember(item, EstIdent(<<"value">>)))>>
                         \o guard \o body.out)>>
                \o else_.out]
  ELSE IF node.type = "CallBlock" THEN
    LET spec == TableGet(tpl.blocks, node.name.value)
        body == Convert(spec.body, tpl, ContextIdent(inx), inx + 1)
        fn == EstFunction("FunctionExpression", Null, <<>>, TRUE, body.out)
    IN [inx |-> body.inx, out |-> <<EstYield(EstCall(fn, <<>>), TRUE)>>]
  ELSE IF node.type = "MacroCall" THEN
    LET macro == TableGet(tpl.macros, node.macro.value)
        n == IF Len(node.args) <= Len(macro.args) THEN Len(node.args) ELSE Len(macro.args)
        args == EstObject([i \in 1..n |->
                             <<EstIdent(macro.args[i].name.value),
                               Expression(node.args[i], context, FALSE)>>])
    IN [inx |-> inx,
        out |-> <<EstYield(EstCall(EstMember(MacrosIdent, EstIdent(node.macro.value)),
                                   <<args, MacrosIdent>>), TRUE)>>]
  ELSE IF node.type = "Assign" THEN
    [inx |-> inx,
     out |-> <<EstSet(Expression(node.pattern, context, FALSE), <<"=">>,
                      Expression(node.value, context, FALSE))>>]
  ELSE \* Filter, the block
    LET fn == EstFunction("ArrowFunctionExpression", Null, <<>>, TRUE, <<>>)
        body == Convert(node.body, tpl, ContextIdent(inx), inx + 1)
    IN [inx |-> body.inx,
        out |-> body.out
                \o <<EstYield(EstCall(Expression(node.filter, context, FALSE),
                                      <<EstCall(fn, <<>>)>>), TRUE)>>]

\* Codegen.Macro, for the macros from the i-th on: [key, value] of each
RECURSIVE ConvertMacros(_, _, _, _)
ConvertMacros(nodes, i, tpl, inx) ==
  IF i > Len(nodes) THEN <<>>
  ELSE LET body == Convert(nodes[i].body, tpl, ContextIdent(inx), inx + 1)
       IN <<(<<EstIdent(nodes[i].name.value),
               EstFunction("FunctionExpression", EstIdent(nodes[i].name.value),
                           <<ContextIdent(inx), MacrosIdent>>, TRUE, body.out)>>)>>
          \o ConvertMacros(nodes, i + 1, tpl, body.inx)

\* Codegen.Template on a new Codegen (_inx = 0, empty stack)
ConvertTemplate(node) ==
  LET body == Convert(node.body, node, ContextIdent(0), 1)
      generate == EstFunction("FunctionExpression", EstIdent(<<"generate">>),
                              <<ContextIdent(0)>>, TRUE,
                              <<EstLet(<<(<<MacrosIdent,
                                            EstMember(EstThis, EstIdent(<<"macros">>))>>)>>)>>
                              \o body.out)
      render == EstFunction("FunctionExpression", EstIdent(<<"render">>),
                            <<EstIdent(<<"context">>)>>, FALSE,
                            <<[type |-> "ReturnStatement",
                               argument |->
                                 EstCall(EstMember(
                                   EstCall(EstMember(EstIdent(<<"Array">>), EstIdent(<<"from">>)),
                                           <<EstCall(EstMember(EstThis, EstIdent(<<"generate">>)),
                                                     <<EstIdent(<<"context">>)>>)>>),
                                   EstIdent(<<"join">>)),
                                 <<EstLiteral(<<>>)>>)]>>)
  IN EstObject(<<(<<EstIdent(<<"macros">>),
                    EstObject(ConvertMacros(node.macros, 1, node, body.inx))>>),
                 (<<EstIdent(<<"generate">>), generate>>),
                 (<<EstIdent(<<"render">>), render>>)>>)

\* compile() with est.script() in place of est.module()
Script(declaration) ==
  [type |-> "Program", sourceType |-> "script",
   body |-> <<[type |-> "ExportDefaultDeclaration", declaration |-> declaration]>>]

\* compile(): est.module() with est.exportDefault(ast) added
Module(declaration) ==
  [type |-> "Program", sourceType |-> "module",
   body |-> <<[type |-> "ExportDefaultDeclaration", declaration |-> declaration]>>]

\* the state after translate() returned (or threw) and compile() wrapped its result
Translated(e) ==
  /\ err' = e
  /\ pc' = IF e = NoErr THEN "done" ELSE "error"
  /\ program' = IF e = NoErr THEN Module(ConvertTemplate(ast)) ELSE Undefined
  /\ UNCHANGED <<code, offset, line, column, events, stack, blocks, macros, start, ast,
                 token, withStrings>>

\* translate(parser.generate()) and the wrapping into a module Program
Translate ==
  /\ pc = "translate"
  /\ Translated(ConvertThrows(ast, ast, {}))

----------------------------------------------------------------------------
(* The sources compile() is run on *)

RECURSIVE Concat(_)
Concat(ss) == IF ss = <<>> THEN <<>> ELSE Head(ss) \o Concat(Tail(ss))

\* lexemes separated by single spaces
RECURSIVE Words(_)
Words(ls) ==
  IF ls = <<>> THEN <<>>
  ELSE IF Len(ls) = 1 THEN Head(ls)
  ELSE Head(ls) \o <<" ">> \o Words(Tail(ls))

\* all sequences of at most n elements of S
RECURSIVE SeqsUpTo(_, _)
SeqsUpTo(S, n) ==
  IF n = 0 THEN {<<>>}
  ELSE LET shorter == SeqsUpTo(S, n - 1) IN
       shorter \cup {Append(q, x) : q \in {r \in shorter : Len(r) = n - 1}, x \in S}

\* `{% ... %}` and `{{ ... }}` around lexemes
StmtTag(ls) == Words(<<(<<"{", "%">>)>> \o ls \o <<(<<"%", "}">>)>>)
ValueTag(ls) == Words(<<(<<"{", "{">>)>> \o ls \o <<(<<"}", "}">>)>>)

\* new Source(code); new Parser(source)
InitOn(sources) ==
  /\ code \in sources
  /\ offset = 0
  /\ line = 1
  /\ column = 0
  /\ events = <<>>
  /\ stack = <<Context("rootStatement", NewScope(Loc(0, 1, 0)), <<>>, Undefined, Undefined)>>
  /\ blocks = <<>>
  /\ macros = <<>>
  /\ start = Loc(0, 1, 0)
  /\ pc = "process"
  /\ err = NoErr
  /\ ast = Undefined
  /\ token = NoToken
  /\ withStrings = FALSE
  /\ program = Undefined

\* identifiers the sources are built from
Id == [x |-> <<"x">>, y |-> <<"y">>, z |-> <<"z">>, f |-> <<"f">>, g |-> <<"g">>,
       h |-> <<"h">>, m |-> <<"m">>, b |-> <<"b">>, v |-> <<"v">>]

MaxTags == 2

\* the tags of the language, one of each
Tags == {
  StmtTag(<<Kw.if, Id.x>>),
  StmtTag(<<Kw.elif, Id.y>>),
  StmtTag(<<Kw.else>>),
  StmtTag(<<Kw.endif>>),
  StmtTag(<<Kw.for, Id.x, Kw.in, Id.y>>),
  StmtTag(<<Kw.endfor>>),
  StmtTag(<<Kw.block, Id.b>>),
  StmtTag(<<Kw.endblock>>),
  StmtTag(<<Kw.macro, Id.m, <<"(">>, Id.x, <<")">> >>),
  StmtTag(<<Kw.endmacro>>),
  StmtTag(<<Kw.call, Id.m, <<"(">>, Id.y, <<")">> >>),
  StmtTag(<<Kw.endcall>>),
  StmtTag(<<Kw.filter, Id.f>>),
  StmtTag(<<Kw.endfilter>>),
  StmtTag(<<Kw.set, Id.x, <<"=">>, Id.y>>) }

\* the pieces of the statement family: texts, a placeable, every tag, and a tag
\* cut off by the end of the source
Pieces == Tags \cup {
  <<"t", "e", "x", "t", " ">>,
  <<" ", "b", "\n">>,
  ValueTag(<<Id.x>>),
  <<"{", "%">> }

\* templates of at most MaxTags pieces
TagSources == {Concat(q) : q \in SeqsUpTo(Pieces, MaxTags)}

\* the ways into each kind of context, with the tags that close it again
Openers == {
  [open |-> <<>>, close |-> <<>>],
  [open |-> <<StmtTag(<<Kw.if, Id.x>>)>>, close |-> <<StmtTag(<<Kw.endif>>)>>],
  [open |-> <<StmtTag(<<Kw.if, Id.x>>), StmtTag(<<Kw.else>>)>>,
   close |-> <<StmtTag(<<Kw.endif>>)>>],
  [open |-> <<StmtTag(<<Kw.for, Id.x, Kw.in, Id.y>>)>>, close |-> <<StmtTag(<<Kw.endfor>>)>>],
  [open |-> <<StmtTag(<<Kw.for, Id.x, Kw.in, Id.y>>), StmtTag(<<Kw.else>>)>>,
   close |-> <<StmtTag(<<Kw.endfor>>)>>],
  [open |-> <<StmtTag(<<Kw.macro, Id.m, <<"(">>, Id.x, <<")">> >>)>>,
   close |-> <<StmtTag(<<Kw.endmacro>>)>>],
  [open |-> <<StmtTag(<<Kw.call, Id.m, <<"(">>, Id.y, <<")">> >>)>>,
   close |-> <<StmtTag(<<Kw.endcall>>)>>],
  [open |-> <<StmtTag(<<Kw.filter, Id.f>>)>>, close |-> <<StmtTag(<<Kw.endfilter>>)>>],
  [open |-> <<StmtTag(<<Kw.block, Id.b>>)>>, close |-> <<StmtTag(<<Kw.endblock>>)>>] }

\* every piece, and a tag whose keyword is none of the language, inside every
\* kind of context, left open or closed again; text between the tags
ContextSources ==
  {Concat(o.open \o <<t>> \o (IF closed THEN o.close ELSE <<>>)) :
     o \in Openers, t \in Pieces \cup {StmtTag(<<Id.x>>)}, closed \in BOOLEAN}
  \cup {Concat(o.open \o <<(<<"a">>), t, (<<" ">>)>> \o o.close) : o \in Openers, t \in Tags}

\* the binary operators of the operator table
BinaryOps == {r.op : r \in {o \in OPERATORS : o.op \notin {<<"(">>, CallOp}}}

\* `x a y b z`, `(x a y) b z` and `x a (y b z)` as the value of a set statement,
\* where no operator is a terminator
PrecLexemes(a, b, parens) ==
  IF parens = "left" THEN <<(<<"(">>), Id.x, a, Id.y, (<<")">>), b, Id.z>>
  ELSE IF parens = "right" THEN <<Id.x, a, (<<"(">>), Id.y, b, Id.z, (<<")">>)>>
  ELSE <<Id.x, a, Id.y, b, Id.z>>

PrecSource(a, b, parens) == StmtTag(<<Kw.set, Id.v, <<"=">> >> \o PrecLexemes(a, b, parens))

PrecSources ==
  {PrecSource(a, b, parens) : a \in BinaryOps, b \in BinaryOps,
                              parens \in {"none", "left", "right"}}

\* calls and member accesses, written without spaces
CallTexts == {
  <<"f", "(", ")">>,
  <<"f", "(", "x", ")">>,
  <<"f", "(", "x", ",", "y", ")">>,
  <<"f", "(", "x", ",", "y", ",", "z", ")">>,
  <<"f", "(", "g", "(", "x", ")", ",", "y", ")">>,
  <<"f", "(", "x", ",", "g", "(", "y", ")", ")">>,
  <<"f", "(", "x", ",", "g", "(", "y", ",", "z", ")", ")">>,
  <<"f", "(", "g", "(", ")", ")">>,
  <<"f", "(", "x", "+", "y", ",", "z", ")">>,
  <<"f", "(", "x", ".", "y", ")">>,
  <<"x", "+", "f", "(", "y", ")">>,
  <<"f", "(", "x", ")", "*", "y">>,
  <<"f", "(", ")", "(", ")">>,
  <<"f", "(", "x", ")", "(", "y", ")">>,
  <<"f", "(", ")", ".", "g">>,
  <<"f", "(", "x", ")", ".", "g">>,
  <<"f", "(", "g", "(", ")", ".", "h", ")">>,
  <<"x", ".", "y">>,
  <<"x", ".", "y", ".", "z">>,
  <<"x", ".", "f", "(", "y", ")">>,
  <<"(", "x", "+", "y", ")", ".", "z">>,
  <<"(", "f", "(", "x", ")", ")">>,
  <<"(", "f", "(", "x", ")", ")", "+", "y">> }

CallSources == {ValueTag(<<t>>) : t \in CallTexts}

MaxToks == 3

\* placeables of at most MaxToks lexemes, well formed or not
Lexemes == {Id.x, <<"+">>, <<"(">>, <<")">>, <<",">>}
TokSources == {ValueTag(q) : q \in SeqsUpTo(Lexemes, MaxToks)}

MaxFilters == 2

\* placeables `{{ e | f1 | ... | fn }}` of at most MaxFilters filters
FilterValues == {<<"x">>, <<"x", " ", "+", " ", "y">>, <<"f", "(", "x", ")">>, <<"x", ".", "y">>}
FilterNames == {<<"f">>, <<"g", "(", "y", ")">>}

RECURSIVE Piped(_)
Piped(fs) == IF fs = <<>> THEN <<>> ELSE <<(<<"|">>), Head(fs)>> \o Piped(Tail(fs))

FilterSource(e, fs) == ValueTag(<<e>> \o Piped(fs))

FilterSources ==
  {FilterSource(e, fs) : e \in FilterValues, fs \in SeqsUpTo(FilterNames, MaxFilters)}

MaxElifs == 1

\* the arms of `{% if x %}..({% elif c %}..)*({% else %}..)?{% endif %}`: the tag, the
\* tree of the condition and the pieces of the branch, a text of the arm's own
\* and a placeable
ArmTexts == <<(<<"a">>), (<<"b">>), (<<"c">>), (<<"d">>), (<<"e">>)>>
ElifConditions == <<Id.y, Id.z, Id.f, Id.g>>
ArmKinds == {"none", "text", "both"}

ArmPieces(k, kind) ==
  IF kind = "none" THEN <<>>
  ELSE IF kind = "text" THEN <<[type |-> "Text", text |-> ArmTexts[k]]>>
  ELSE <<[type |-> "Text", text |-> ArmTexts[k]],
         [type |-> "PutValue", tree |-> [type |-> "Variable", name |-> Id.v]]>>

IfArm(k, n, kind) ==
  IF k = 1 THEN
    [tag |-> StmtTag(<<Kw.if, Id.x>>), condition |-> [type |-> "Variable", name |-> Id.x],
     body |-> ArmPieces(k, kind)]
  ELSE IF k <= n + 1 THEN
    [tag |-> StmtTag(<<Kw.elif, ElifConditions[k - 1]>>),
     condition |-> [type |-> "Variable", name |-> ElifConditions[k - 1]],
     body |-> ArmPieces(k, kind)]
  ELSE
    [tag |-> StmtTag(<<Kw.else>>), condition |-> [type |-> "Boolean"],
     body |-> ArmPieces(k, kind)]

\* the if statements of at most MaxElifs elif tags, with and without else
IfCases ==
  UNION {{[k \in 1..(n + 1 + e) |-> IfArm(k, n, kinds[k])] :
            kinds \in [1..(n + 1 + e) -> ArmKinds]} : n \in 0..MaxElifs, e \in {0, 1}}

PieceSource(piece) ==
  IF piece.type = "Text" THEN piece.text ELSE ValueTag(<<piece.tree.name>>)

IfSource(arms) ==
  Concat([k \in 1..Len(arms) |->
            arms[k].tag \o Concat([i \in 1..Len(arms[k].body) |->
                                     PieceSource(arms[k].body[i])])])
    \o StmtTag(<<Kw.endif>>)

IfSources == {IfSource(arms) : arms \in IfCases}

\* the parts of `{% for p in e [if f] %}..[{% else %}..]{% endfor %}`: lexemes and trees
ForPatterns == {
  [lexemes |-> <<Id.x>>, tree |-> [type |-> "Variable", name |-> Id.x]],
  [lexemes |-> <<Id.x, (<<",">>), Id.y>>,
   tree |-> [type |-> "Unpack", names |-> <<[type |-> "Variable", name |-> Id.x],
                                            [type |-> "Variable", name |-> Id.y]>>]] }

ForIterables == {
  [lexemes |-> <<Id.z>>, tree |-> [type |-> "Variable", name |-> Id.z]],
  [lexemes |-> <<Id.z, (<<".">>), Id.h>>,
   tree |-> [type |-> "Member", object |-> [type |-> "Variable", name |-> Id.z],
             property |-> [type |-> "Variable", name |-> Id.h]]] }

ForFilters == {
  [lexemes |-> <<>>, tree |-> [type |-> "null"]],
  [lexemes |-> <<Kw.if, Id.f>>, tree |-> [type |-> "Variable", name |-> Id.f]] }

ForCases ==
  [pattern : ForPatterns, iterable : ForIterables, filter : ForFilters,
   body : ArmKinds, alternative : ArmKinds \cup {"absent"}]

PiecesSource(pieces) == Concat([i \in 1..Len(pieces) |-> PieceSource(pieces[i])])

ForTag(c) ==
  StmtTag(<<Kw.for>> \o c.pattern.lexemes \o <<Kw.in>> \o c.iterable.lexemes
            \o c.filter.lexemes)

ForSource(c) ==
  ForTag(c) \o PiecesSource(ArmPieces(1, c.body))
    \o (IF c.alternative = "absent" THEN <<>>
        ELSE StmtTag(<<Kw.else>>) \o PiecesSource(ArmPieces(2, c.alternative)))
    \o StmtTag(<<Kw.endfor>>)

ForSources == {ForSource(c) : c \in ForCases}

MaxDefs == 2

\* templates of at most MaxDefs definitions of blocks and macros, all empty
DefNames == {Id.b, Id.g, ProtoName}
Defs == [kind : {"block", "macro"}, name : DefNames]

DefSource(d) ==
  IF d.kind = "block"
    THEN StmtTag(<<Kw.block, d.name>>) \o StmtTag(<<Kw.endblock>>)
    ELSE StmtTag(<<Kw.macro, d.name, (<<"(">>), (<<")">>)>>) \o StmtTag(<<Kw.endmacro>>)

DefsSource(q) == Concat([k \in 1..Len(q) |-> DefSource(q[k])])

DefSeqs == SeqsUpTo(Defs, MaxDefs) \ {<<>>}

DefSources == {DefsSource(q) : q \in DefSeqs}

\* text with quotes that have no match, a tag after it, and text after the tag
QuoteTexts == {<<"i", "t", "'", "s", " ">>, <<"\"">>, <<"a", "'", "\"", " ">>}
QuoteTags == {
  [tag |-> ValueTag(<<Id.x>>), type |-> "PutValue"],
  [tag |-> StmtTag(<<Kw.set, Id.x, (<<"=">>), Id.y>>), type |-> "Assign"] }
QuoteTails == {<<>>, <<"'">>, <<" ", "\"", "b">>}
QuoteCases == [text : QuoteTexts, tag : QuoteTags, tail : QuoteTails]

QuoteSource(c) == c.text \o c.tag.tag \o c.tail

QuoteSources == {QuoteSource(c) : c \in QuoteCases}

\* expressions of no token in every place that takes an expression, a number,
\* and macros with their calls
ExprSources == {
  ValueTag(<<Id.x, <<"|">> >>),
  ValueTag(<<Id.x, <<"+">>, <<"2">> >>),
  StmtTag(<<Kw.if>>) \o StmtTag(<<Kw.endif>>),
  StmtTag(<<Kw.for, Id.x, Kw.in>>) \o StmtTag(<<Kw.endfor>>),
  StmtTag(<<Kw.for, Id.x, Kw.in, Id.y, Kw.if>>) \o StmtTag(<<Kw.endfor>>),
  StmtTag(<<Kw.set, Id.x, <<"=">> >>),
  StmtTag(<<Kw.call, Id.m, <<"(">>, <<")">> >>) \o StmtTag(<<Kw.endcall>>),
  StmtTag(<<Kw.call, Id.m, <<"(">>, Id.x, <<",">>, <<")">> >>) \o StmtTag(<<Kw.endcall>>),
  StmtTag(<<Kw.call, Id.m, <<"(">>, Id.f, <<"(">>, Id.x, <<")">>, <<")">> >>)
    \o StmtTag(<<Kw.endcall>>),
  StmtTag(<<Kw.macro, Id.m, <<"(">>, Id.x, <<")">> >>) \o ValueTag(<<Id.x>>)
    \o StmtTag(<<Kw.endmacro>>)
    \o StmtTag(<<Kw.call, Id.m, <<"(">>, Id.y, <<")">> >>) \o StmtTag(<<Kw.endcall>>) }

Sources ==
  TagSources \cup ContextSources \cup PrecSources \cup CallSources \cup TokSources
             \cup FilterSources \cup IfSources \cup ForSources \cup DefSources
             \cup QuoteSources \cup ExprSources

Init == InitOn(Sources)

Next ==
  \/ PutValue
  \/ StmtIf
  \/ StmtElif
  \/ StmtElse
  \/ StmtEndif
  \/ StmtFor
  \/ StmtElsefor
  \/ StmtEndforelse
  \/ StmtEndfor
  \/ StmtMacro
  \/ StmtEndmacro
  \/ StmtCall
  \/ StmtEndcall
  \/ StmtFilter
  \/ StmtEndfilter
  \/ StmtSet
  \/ StmtBlock
  \/ StmtEndblock
  \/ StmtError
  \/ ProcessEnd
  \/ Generate
  \/ Translate

Spec == Init /\ [][Next]_vars

----------------------------------------------------------------------------
(* The lexer on its own: a Source and calls of next(), with and without    *)
(* the strings flag, until it has returned the EndOfStream                 *)

MaxChars == 4

\* the lexemes of the symbol table, and the characters of the symbol class
\* that are in no lexeme of the table
SymbolLexemes == {SYMBOLS[i].sym : i \in 1..Len(SYMBOLS)}
ClassOnly == {<<c>> : c \in {"[", "]", "#"}}

\* a lexeme alone and before another lexeme, a letter or a space
SymbolSources ==
  {s \o t : s \in SymbolLexemes \cup ClassOnly,
            t \in SymbolLexemes \cup ClassOnly \cup {<<>>, <<"x">>, <<" ">>}}

\* every text of at most MaxChars characters over quotes, backslash, a letter,
\* a space and a newline
StringChars == {"'", "\"", "\\", "a", " ", "\n"}
StringSources == SeqsUpTo(StringChars, MaxChars)

LexSources == SymbolSources \cup StringSources

\* new Source(code)
LexInit ==
  /\ code \in LexSources
  /\ offset = 0
  /\ line = 1
  /\ column = 0
  /\ token = NoToken
  /\ withStrings = FALSE
  /\ program = Undefined
  /\ events = <<>>
  /\ stack = <<>>
  /\ blocks = <<>>
  /\ macros = <<>>
  /\ start = Loc(0, 1, 0)
  /\ pc = "lex"
  /\ err = NoErr
  /\ ast = Undefined

\* source.next(flag) that returns the token and leaves the cursor where it was
LexedInPlace(n, flag) ==
  /\ token' = n.tok
  /\ withStrings' = flag
  /\ UNCHANGED <<code, offset, line, column, events, stack, blocks, macros, start, pc, err, ast,
                 program>>

\* the state after source.next(flag) returned the token and left the cursor at n.loc
Lexed(n, flag) ==
  /\ offset' = n.loc.offset
  /\ line' = n.loc.line
  /\ column' = n.loc.column
  /\ token' = n.tok
  /\ withStrings' = flag
  /\ UNCHANGED <<code, events, stack, blocks, macros, start, pc, err, ast, program>>

\* source.next(), called until the EndOfStream has been returned
SourceNextPlain ==
  /\ pc = "lex"
  /\ token.type # "EndOfStream"
  /\ Lexed(SourceNext(Loc(offset, line, column), FALSE), FALSE)

\* source.next(true)
SourceNextStrings ==
  /\ pc = "lex"
  /\ token.type # "EndOfStream"
  /\ Lexed(SourceNext(Loc(offset, line, column), TRUE), TRUE)

LexNext == SourceNextPlain \/ SourceNextStrings

LexSpec == LexInit /\ [][LexNext]_vars

----------------------------------------------------------------------------
(* Both runs: compile() on a source, and next() called on a source until   *)
(* it returns the EndOfStream                                              *)

RunInit == Init \/ LexInit

RunNext == Next \/ LexNext

RunSpec == RunInit /\ [][RunNext]_vars

----------------------------------------------------------------------------
(* The trees of a state: every node the parser has built so far *)

\* a node and the nodes below it, in the order the parser built them
RECURSIVE Flat(_)
FlatAll(ns) == Concat([i \in 1..Len(ns) |-> Flat(ns[i])])

Flat(n) ==
  <<n>> \o
  (IF n.type = "Scope" THEN FlatAll(n.body)
   ELSE IF n.type = "PutValue" THEN Flat(n.value) \o FlatAll(n.filters)
   ELSE IF n.type = "CaseStatement" THEN FlatAll(n.arms)
   ELSE IF n.type = "Arm" THEN Flat(n.condition) \o FlatAll(n.body)
   ELSE IF n.type = "ForLoop" THEN
     Flat(n.pattern) \o Flat(n.iterable) \o Flat(n.filter) \o Flat(n.body)
       \o (IF n.alternative = Null THEN <<>> ELSE FlatAll(n.alternative.list))
   ELSE IF n.type = "Macro" THEN FlatAll(n.args) \o Flat(n.body)
   ELSE IF n.type = "MacroCall" THEN FlatAll(n.args) \o Flat(n.body)
   ELSE IF n.type = "Block" THEN Flat(n.body)
   ELSE IF n.type = "Filter" THEN
     IF "body" \in DOMAIN n THEN Flat(n.filter) \o Flat(n.body)
     ELSE Flat(n.value) \o Flat(n.filter)
   ELSE IF n.type = "Assign" THEN Flat(n.pattern) \o Flat(n.value)
   ELSE IF n.type = "BinOp" THEN Flat(n.left) \o Flat(n.right)
   ELSE IF n.type = "Member" THEN Flat(n.object) \o Flat(n.property)
   ELSE IF n.type = "FunctionCall" THEN Flat(n.function) \o FlatAll(n.args)
   ELSE <<>>)

\* the nodes an open context holds: the closed arms, the open arm's condition,
\* the template being filled and the body
ContextNodes(c) ==
  FlatAll(c.arms)
    \o (IF c.arm = Undefined THEN <<>> ELSE Flat(c.arm.condition))
    \o (IF c.template = Undefined \/ "type" \notin DOMAIN c.template THEN <<>>
        ELSE Flat(c.template))
    \o FlatAll(c.body)

\* every node of the state: of the open contexts, of the block and macro tables,
\* and of the body of the Template once generate() has returned it
Nodes ==
  Concat([i \in 1..Len(stack) |-> ContextNodes(stack[i])])
    \o FlatAll(blocks) \o FlatAll(macros)
    \o (IF ast = Undefined THEN <<>> ELSE Flat(ast.body))

NodeSet == {Nodes[i] : i \in 1..Len(Nodes)}

----------------------------------------------------------------------------
(* C1 *)

\* C1: whenever compile() throws, the error is a SyntaxError carrying a location;
\* no plain Error and no TypeError escapes.
C1_OnlySyntaxErrors ==
  pc = "error" => err.name = "SyntaxError" /\ err.location # Undefined

\* compile() has thrown a plain Error
C1_Witness == pc = "error" /\ err.name = "Error"


----------------------------------------------------------------------------
(* C2 *)

\* is there a `{{` or a `{%` at offset i of the source?
OpenerAt(i) == i + 2 <= Len(code) /\ code[i + 1] = "{" /\ code[i + 2] \in {"{", "%"}

\* the offset of the first tag opener at or after i, Len(code) when there is none
RECURSIVE NextOpener(_)
NextOpener(i) ==
  IF i >= Len(code) THEN Len(code) ELSE IF OpenerAt(i) THEN i ELSE NextOpener(i + 1)

\* the offset after the first `closer` at or after i, Len(code) when there is none
RECURSIVE TagEnd(_, _)
TagEnd(i, closer) ==
  IF i + 2 > Len(code) THEN Len(code)
  ELSE IF <<code[i + 1], code[i + 2]>> = closer THEN i + 2
  ELSE TagEnd(i + 1, closer)

\* the maximal runs of characters outside the tags, from offset s on, read off
\* the characters of the source: a tag runs from its opener to its closer
RECURSIVE Runs(_)
Runs(s) ==
  LET o == NextOpener(s)
      run == IF o > s THEN <<[start |-> s, end |-> o, text |-> SubSeq(code, s + 1, o)]>>
             ELSE <<>>
  IN IF o >= Len(code) THEN run
     ELSE run \o Runs(TagEnd(o + 2, IF code[o + 2] = "{" THEN <<"}", "}">>
                                    ELSE <<"%", "}">>))

\* process() threw inside a tag
TagFailed ==
  /\ pc = "error"
  /\ ast = Undefined
  /\ ~(err.name = "SyntaxError" /\ err.message.text = "Unclosed block")

\* the states that show what process() did: while it runs, after it completed
\* or threw; not after generate() threw, which has popped a context by then
ProcessShown == pc # "error" \/ TagFailed \/ ast # Undefined

\* how far process() has delivered the text: to the end of the last tag while it
\* runs, to the tag that failed when it threw, to the end when it completed
Delivered ==
  IF pc = "process" THEN start.offset
  ELSE IF TagFailed THEN NextOpener(start.offset)
  ELSE Len(code)

RunsDelivered == {r \in {Runs(0)[i] : i \in 1..Len(Runs(0))} : r.end <= Delivered}

TextNodes == SelectSeq(Nodes, LAMBDA n : n.type = "Text")

\* the bodies of the state: of the open contexts and of the nodes built
Bodies ==
  {stack[i].body : i \in 1..Len(stack)}
    \cup {n.body : n \in {k \in NodeSet : k.type \in {"Scope", "Arm"}}}
    \cup {n.alternative.list :
            n \in {k \in NodeSet : k.type = "ForLoop" /\ k.alternative # Null}}

\* the text run that ends at the tag the next iteration of process() stops at
PendingRun == [start |-> start.offset, end |-> NextOpener(start.offset),
               text |-> SubSeq(code, start.offset + 1, NextOpener(start.offset))]

IsTextOf(n, r) ==
  n.type = "Text" /\ n.start.offset = r.start /\ n.end.offset = r.end /\ n.text = r.text

\* C2: while process() runs, after it completed and after it threw, the Text
\* nodes are exactly the maximal runs of characters outside the tags that
\* process() has passed, one node per run, each with the run's characters and
\* span, none empty; every body is in source order; the text before a tag is
\* appended to the body of the context open at that tag, also when the tag then
\* fails; `text {%` throws with the one Text 'text ' [0,5).
C2_TextRuns ==
  ProcessShown =>
  /\ {[start |-> t.start.offset, end |-> t.end.offset, text |-> t.text] :
        t \in {TextNodes[i] : i \in 1..Len(TextNodes)}} = RunsDelivered
  /\ Len(TextNodes) = Cardinality(RunsDelivered)
  /\ \A i \in 1..Len(TextNodes) : TextNodes[i].text # <<>>
  /\ \A b \in Bodies : \A i, j \in 1..Len(b) :
       i < j => b[i].start.offset < b[j].start.offset
  /\ (pc = "process" /\ PendingRun.end > PendingRun.start /\ PendingRun.end < Len(code)) =>
       LET q == Keyword.p.stack IN
       /\ Len(q) = Len(stack)
       /\ Len(q[Len(q)].body) = Len(stack[Len(stack)].body) + 1
       /\ IsTextOf(q[Len(q)].body[Len(q[Len(q)].body)], PendingRun)
  /\ (pc = "generate" /\ Runs(0) # <<>> /\ Runs(0)[Len(Runs(0))].end = Len(code)) =>
       LET b == stack[Len(stack)].body IN
       b # <<>> /\ IsTextOf(b[Len(b)], Runs(0)[Len(Runs(0))])
  /\ (pc = "error" /\ code = <<"t", "e", "x", "t", " ", "{", "%">>) =>
       /\ Len(stack) = 1
       /\ Len(stack[1].body) = 1
       /\ IsTextOf(stack[1].body[1],
                   [start |-> 0, end |-> 5, text |-> <<"t", "e", "x", "t", " ">>])

\* process() completed with a text inside an if arm, a tag after it and a text
\* after the tag
C2_Witness ==
  /\ pc = "generate"
  /\ \E n \in NodeSet :
       /\ n.type = "Arm"
       /\ Len(n.body) = 3
       /\ n.body[1].type = "Text"
       /\ n.body[2].type # "Text"
       /\ n.body[3].type = "Text"


----------------------------------------------------------------------------
(* C3 *)

\* the keywords statement() handles itself, in any context
OpeningKeywords == {Kw.if, Kw.for, Kw.block, Kw.macro, Kw.call, Kw.filter, Kw.set}

\* the mid and closing keywords that are legal in a context, by its dispatcher
LegalKeywords(statement) ==
  CASE statement = "ifStatement"      -> {Kw.elif, Kw.else, Kw.endif}
    [] statement = "elseStatement"    -> {Kw.endif}
    [] statement = "forStatement"     -> {Kw.else, Kw.endfor}
    [] statement = "forElseStatement" -> {Kw.endfor}
    [] statement = "macroStatement"   -> {Kw.endmacro}
    [] statement = "callStatement"    -> {Kw.endcall}
    [] statement = "filterStatement"  -> {Kw.endfilter}
    [] statement = "blockStatement"   -> {Kw.endblock}
    [] OTHER                          -> {}

\* the next iteration of process() is a `{%` tag whose keyword is not an opening one
AtOtherKeyword ==
  /\ pc = "process"
  /\ Keyword.tok.type = "Identifier"
  /\ Keyword.tok.value \notin OpeningKeywords

InvalidStatement(e) == e.name = "SyntaxError" /\ e.message.text = "Invalid statement"

\* the step of a `{%` tag with a non-opening keyword: an illegal one throws
\* 'Invalid statement' and leaves the stack as it was, a legal one is accepted
KeywordStep ==
  AtOtherKeyword =>
    IF Keyword.tok.value \in LegalKeywords(stack[Len(stack)].statement)
      THEN ~InvalidStatement(err')
      ELSE /\ pc' = "error"
           /\ InvalidStatement(err')
           /\ Len(stack') = Len(stack)
           /\ \A i \in 1..Len(stack) : stack'[i].statement = stack[i].statement

\* the root context is on the stack as long as process() runs, and after it
RootOpen ==
  (pc \in {"process", "generate"} \/ TagFailed) =>
    Len(stack) >= 1 /\ stack[1].statement = "rootStatement"

\* C3: a mid or closing keyword is accepted only when it is legal for the
\* innermost open context; every other non-opening keyword throws SyntaxError
\* 'Invalid statement' without popping a context, and the root context is never
\* popped during process().
C3_KeywordLegality == []RootOpen /\ [][KeywordStep]_vars

\* `else` after the else of a for, rejected with both contexts still open
C3_Witness ==
  /\ pc = "error"
  /\ InvalidStatement(err)
  /\ Len(stack) = 2
  /\ stack[2].statement = "forElseStatement"
  /\ code[err.location.start.offset + 1] = "e"
  /\ code[err.location.start.offset + 2] = "l"


----------------------------------------------------------------------------
(* C4 *)

\* the dispatcher of the context each block-opening keyword pushes
Pushes ==
  [k \in {Kw.if, Kw.for, Kw.block, Kw.macro, Kw.call, Kw.filter} |->
     CASE k = Kw.if     -> "ifStatement"
       [] k = Kw.for    -> "forStatement"
       [] k = Kw.block  -> "blockStatement"
       [] k = Kw.macro  -> "macroStatement"
       [] k = Kw.call   -> "callStatement"
       [] k = Kw.filter -> "filterStatement"]

ClosingKeywords == {Kw.endif, Kw.endfor, Kw.endblock, Kw.endmacro, Kw.endcall, Kw.endfilter}

\* the contexts below the innermost one stay, in their order
SameBelow(n) == \A i \in 1..n : stack'[i].statement = stack[i].statement

\* the step of a `{%` tag that parses: an opening keyword pushes one context, a
\* closing keyword pops one, elif and else leave the depth as it is
DepthStep ==
  (pc = "process" /\ pc' = "process" /\ Keyword.tok.type = "Identifier") =>
    /\ Keyword.tok.value \in DOMAIN Pushes =>
         /\ Len(stack') = Len(stack) + 1
         /\ SameBelow(Len(stack))
         /\ stack'[Len(stack')].statement = Pushes[Keyword.tok.value]
    /\ Keyword.tok.value \in ClosingKeywords =>
         /\ Len(stack') = Len(stack) - 1
         /\ SameBelow(Len(stack) - 1)
    /\ Keyword.tok.value \in {Kw.elif, Kw.else} =>
         /\ Len(stack') = Len(stack)
         /\ SameBelow(Len(stack) - 1)

UnclosedBlock(e) == e.name = "SyntaxError" /\ e.message.text = "Unclosed block"

\* the step of generate(): the Template when only the root context is open,
\* 'Unclosed block' otherwise
GenerateStep ==
  pc = "generate" =>
    IF Len(stack) = 1
      THEN pc' = "translate" /\ ast'.type = "Template"
      ELSE pc' = "error" /\ UnclosedBlock(err') /\ ast' = Undefined

\* C4: every block-opening tag (if, for, block, macro, call, filter) pushes
\* exactly one context, its closing tag pops exactly one, elif and else leave
\* the depth unchanged; generate() returns a Template when only the root context
\* is left and throws SyntaxError 'Unclosed block' when a block is still open.
C4_Depth == [][DepthStep /\ GenerateStep]_vars

\* generate() threw 'Unclosed block' on a source that opens a block inside a block
C4_Witness ==
  /\ pc = "error"
  /\ UnclosedBlock(err)
  /\ Len(stack) = 2


----------------------------------------------------------------------------
(* The expression trees, without their spans *)

RECURSIVE Tree(_)
Tree(n) ==
  IF n.type = "Variable" THEN [type |-> "Variable", name |-> n.name]
  ELSE IF n.type = "BinOp" THEN
    [type |-> "BinOp", op |-> n.op.value, left |-> Tree(n.left), right |-> Tree(n.right)]
  ELSE IF n.type = "Member" THEN
    [type |-> "Member", object |-> Tree(n.object), property |-> Tree(n.property)]
  ELSE IF n.type = "Filter" /\ "value" \in DOMAIN n THEN
    [type |-> "Filter", value |-> Tree(n.value), filter |-> Tree(n.filter)]
  ELSE IF n.type = "FunctionCall" THEN
    [type |-> "FunctionCall", function |-> Tree(n.function),
     args |-> [i \in 1..Len(n.args) |-> Tree(n.args[i])]]
  ELSE [type |-> n.type]

Var(name) == [type |-> "Variable", name |-> name]

\* the tree of `l op r`: a Member for `.`, a Filter for `|`, a BinOp otherwise
Bin(op, l, r) ==
  IF op = <<".">> THEN [type |-> "Member", object |-> l, property |-> r]
  ELSE IF op = <<"|">> THEN [type |-> "Filter", value |-> l, filter |-> r]
  ELSE [type |-> "BinOp", op |-> op, left |-> l, right |-> r]

Call(f, args) == [type |-> "FunctionCall", function |-> f, args |-> args]

\* the body of the root context, on the stack or in the Template
RootBody == IF stack # <<>> THEN stack[1].body ELSE ast.body.body

\* the first tag of the source has been parsed
FirstParsed == (pc # "error" /\ offset > 0) \/ (pc = "error" /\ ast # Undefined)

----------------------------------------------------------------------------
(* C5 *)

Info(op) == CHOOSE r \in OPERATORS : r.op = op

\* the grouping of `x a y b z` by precedence and associativity, and under parentheses
Grouped(a, b, parens) ==
  LET left == Bin(b, Bin(a, Var(Id.x), Var(Id.y)), Var(Id.z))
      right == Bin(a, Var(Id.x), Bin(b, Var(Id.y), Var(Id.z)))
  IN IF parens = "left" THEN left
     ELSE IF parens = "right" THEN right
     ELSE IF Info(a).precedence < Info(b).precedence THEN right
     ELSE IF Info(a).precedence > Info(b).precedence THEN left
     ELSE IF Info(b).associativity = "left" THEN left
     ELSE right

\* C5: for every pair a, b of binary operators of the operator table, `x a y b z`
\* parses, and groups as a(x, b(y, z)) when prec(a) < prec(b), as b(a(x, y), z)
\* when prec(a) > prec(b), left-nested for equal precedence and left
\* associativity, right-nested for `**`; parentheses override the precedence.
C5_Precedence ==
  code \in PrecSources =>
  \A a \in BinaryOps, b \in BinaryOps, parens \in {"none", "left", "right"} :
    code = PrecSource(a, b, parens) =>
      /\ pc = "error" => ast # Undefined
      /\ FirstParsed =>
           /\ Len(RootBody) = 1
           /\ RootBody[1].type = "Assign"
           /\ Tree(RootBody[1].value) = Grouped(a, b, parens)

\* `x + y * z` has been parsed with the product as the right operand of the sum
C5_Witness ==
  /\ code = PrecSource(<<"+">>, <<"*">>, "none")
  /\ pc = "generate"
  /\ RootBody[1].value.type = "BinOp"
  /\ RootBody[1].value.op.value = <<"+">>
  /\ RootBody[1].value.right.type = "BinOp"
  /\ RootBody[1].value.right.op.value = <<"*">>


----------------------------------------------------------------------------
(* C6 *)

\* a placeable around an expression written without spaces
Placeable(text) == ValueTag(<<text>>)

Span(n) == <<n.start.offset, n.end.offset>>

----------------------------------------------------------------------------
(* C7 *)

\* the parser has thrown: the error is not one of the lowering
ParseFailed == pc = "error" /\ ast = Undefined

\* C7: `f()()` parses to FunctionCall(FunctionCall(f, []), []) and `f().g` to
\* Member(FunctionCall(f, []), g): a `(` or a `.` after a call applies to the
\* result of the call.
C7_Chained ==
  /\ (code = Placeable(<<"f", "(", ")", "(", ")">>)) =>
       /\ ~ParseFailed
       /\ FirstParsed => Tree(RootBody[1].value) = Call(Call(Var(Id.f), <<>>), <<>>)
  /\ (code = Placeable(<<"f", "(", ")", ".", "g">>)) =>
       /\ ~ParseFailed
       /\ FirstParsed =>
            Tree(RootBody[1].value) = Bin(<<".">>, Call(Var(Id.f), <<>>), Var(Id.g))

\* `f().g` has made the parser throw the plain Error 'No more values'
C7_Witness ==
  /\ code = Placeable(<<"f", "(", ")", ".", "g">>)
  /\ ParseFailed
  /\ err.name = "Error"
  /\ err.message = "No more values"

\* `f()()` has been parsed to a call of a call
C7_CallOfCall ==
  /\ code = Placeable(<<"f", "(", ")", "(", ")">>)
  /\ pc = "generate"
  /\ Tree(RootBody[1].value) = Call(Call(Var(Id.f), <<>>), <<>>)

----------------------------------------------------------------------------
(* C8 *)

\* calls and the trees their arguments have, in source order
CallCases == {
  [text |-> <<"f", "(", ")">>, tree |-> Call(Var(Id.f), <<>>)],
  [text |-> <<"f", "(", "x", ")">>, tree |-> Call(Var(Id.f), <<Var(Id.x)>>)],
  [text |-> <<"f", "(", "x", ",", "y", ")">>,
   tree |-> Call(Var(Id.f), <<Var(Id.x), Var(Id.y)>>)],
  [text |-> <<"f", "(", "x", ",", "y", ",", "z", ")">>,
   tree |-> Call(Var(Id.f), <<Var(Id.x), Var(Id.y), Var(Id.z)>>)],
  [text |-> <<"f", "(", "g", "(", "x", ")", ",", "y", ")">>,
   tree |-> Call(Var(Id.f), <<Call(Var(Id.g), <<Var(Id.x)>>), Var(Id.y)>>)],
  [text |-> <<"f", "(", "x", ",", "g", "(", "y", ")", ")">>,
   tree |-> Call(Var(Id.f), <<Var(Id.x), Call(Var(Id.g), <<Var(Id.y)>>)>>)],
  [text |-> <<"f", "(", "x", ",", "g", "(", "y", ",", "z", ")", ")">>,
   tree |-> Call(Var(Id.f), <<Var(Id.x), Call(Var(Id.g), <<Var(Id.y), Var(Id.z)>>)>>)],
  [text |-> <<"f", "(", "g", "(", ")", ")">>,
   tree |-> Call(Var(Id.f), <<Call(Var(Id.g), <<>>)>>)],
  [text |-> <<"f", "(", "x", "+", "y", ",", "z", ")">>,
   tree |-> Call(Var(Id.f), <<Bin(<<"+">>, Var(Id.x), Var(Id.y)), Var(Id.z)>>)],
  [text |-> <<"f", "(", "x", ".", "y", ")">>,
   tree |-> Call(Var(Id.f), <<Bin(<<".">>, Var(Id.x), Var(Id.y))>>)],
  [text |-> <<"x", "+", "f", "(", "y", ")">>,
   tree |-> Bin(<<"+">>, Var(Id.x), Call(Var(Id.f), <<Var(Id.y)>>))],
  [text |-> <<"f", "(", "x", ")", "*", "y">>,
   tree |-> Bin(<<"*">>, Call(Var(Id.f), <<Var(Id.x)>>), Var(Id.y))],
  [text |-> <<"f", "(", "x", ")", "(", "y", ")">>,
   tree |-> Call(Call(Var(Id.f), <<Var(Id.x)>>), <<Var(Id.y)>>)],
  [text |-> <<"x", ".", "f", "(", "y", ")">>,
   tree |-> Call(Bin(<<".">>, Var(Id.x), Var(Id.f)), <<Var(Id.y)>>)] }

----------------------------------------------------------------------------
(* C9 *)

\* an unmatched `(`, an unmatched `)`, operators that lack an operand, a `,`
\* outside call parentheses, two adjacent values
Malformed == {
  ValueTag(<<(<<"(">>), Id.x>>),
  ValueTag(<<Id.x, (<<")">>)>>),
  ValueTag(<<(<<"+">>)>>),
  ValueTag(<<Id.x, (<<"+">>)>>),
  ValueTag(<<(<<"+">>), Id.x>>),
  ValueTag(<<Id.x, (<<",">>), Id.x>>),
  ValueTag(<<Id.x, Id.x>>) }

\* C9: a placeable around a malformed expression makes the parser throw a
\* SyntaxError; none is accepted as an expression.
C9_Rejected ==
  (code \in Malformed /\ (offset > 0 \/ pc # "process")) =>
    pc = "error" /\ err.name = "SyntaxError" /\ ast = Undefined

\* `{{ x ) }}` has been accepted as the placeable of x
C9_Witness ==
  /\ code = ValueTag(<<Id.x, (<<")">>)>>)
  /\ pc = "generate"
  /\ Len(RootBody) = 1
  /\ RootBody[1].type = "PutValue"
  /\ Tree(RootBody[1].value) = Var(Id.x)

----------------------------------------------------------------------------
(* C10 *)

\* the values and the filters of the placeables, with their trees
ValueCases == {
  [text |-> <<"x">>, tree |-> Var(Id.x)],
  [text |-> <<"x", " ", "+", " ", "y">>, tree |-> Bin(<<"+">>, Var(Id.x), Var(Id.y))],
  [text |-> <<"f", "(", "x", ")">>, tree |-> Call(Var(Id.f), <<Var(Id.x)>>)],
  [text |-> <<"x", ".", "y">>, tree |-> Bin(<<".">>, Var(Id.x), Var(Id.y))] }

FilterCases == {
  [text |-> <<"f">>, tree |-> Var(Id.f)],
  [text |-> <<"g", "(", "y", ")">>, tree |-> Call(Var(Id.g), <<Var(Id.y)>>)] }

\* every PutValue of the state spans a `{{` ... `}}` of the source and holds no
\* Filter expression as its value or as one of its filters
PutValueNodes ==
  \A n \in NodeSet :
    n.type = "PutValue" =>
      /\ SubSeq(code, n.start.offset + 1, n.start.offset + 2) = <<"{", "{">>
      /\ SubSeq(code, n.end.offset - 1, n.end.offset) = <<"}", "}">>
      /\ n.value.type # "Filter"
      /\ \A i \in 1..Len(n.filters) : n.filters[i].type # "Filter"

\* the placeables `{{ e | f1 | ... | fn }}`: one PutValue of e and [f1, ..., fn]
PutValueCases ==
  \A e \in ValueCases, fs \in SeqsUpTo(FilterCases, MaxFilters) :
    code = FilterSource(e.text, [i \in 1..Len(fs) |-> fs[i].text]) =>
      /\ ~ParseFailed
      /\ FirstParsed =>
           /\ Len(RootBody) = 1
           /\ RootBody[1].type = "PutValue"
           /\ Tree(RootBody[1].value) = e.tree
           /\ [i \in 1..Len(RootBody[1].filters) |-> Tree(RootBody[1].filters[i])]
                = [i \in 1..Len(fs) |-> fs[i].tree]
           /\ Span(RootBody[1]) = <<0, Len(code)>>

\* the step of a placeable that parses: one PutValue more on the body of the
\* innermost context, after the text before the tag, and the same contexts
PutValueStep ==
  (pc = "process" /\ Keyword.method = "putValue" /\ pc' = "process") =>
    LET before == Keyword.p.stack[Len(stack)].body
        after == stack'[Len(stack)].body
    IN /\ Len(stack') = Len(stack)
       /\ SameBelow(Len(stack))
       /\ Len(after) = Len(before) + 1
       /\ SubSeq(after, 1, Len(before)) = before
       /\ after[Len(after)].type = "PutValue"

\* C10: a placeable `{{ e | f1 | ... | fn }}`, n >= 0, appends exactly one
\* PutValue to the current body, with value e and filters [f1, ..., fn] in source
\* order, spanning from the `{{` to just after the `}}`; a `|` of a placeable
\* separates filters and is never folded into a Filter node.
C10_Placeable == [](PutValueNodes /\ PutValueCases) /\ [][PutValueStep]_vars

\* `{{ x + y | f | g(y) }}` has been parsed to a PutValue with two filters
C10_Witness ==
  /\ code = FilterSource(<<"x", " ", "+", " ", "y">>, <<(<<"f">>), (<<"g", "(", "y", ")">>)>>)
  /\ pc = "generate"
  /\ Len(RootBody) = 1
  /\ RootBody[1].type = "PutValue"
  /\ Len(RootBody[1].filters) = 2


----------------------------------------------------------------------------
(* C11 *)

\* process() has returned
ProcessDone == pc \in {"generate", "translate", "done"} \/ (pc = "error" /\ ast # Undefined)

\* a placeable of a body without its span: the text of a Text, the tree of the
\* value of a PutValue
Shape(n) ==
  IF n.type = "Text" THEN [type |-> "Text", text |-> n.text]
  ELSE IF n.type = "PutValue" THEN [type |-> "PutValue", tree |-> Tree(n.value)]
  ELSE [type |-> n.type]

Shapes(body) == [i \in 1..Len(body) |-> Shape(body[i])]

\* the contexts of an if, an elif and an else carry the scope of the context below
IfScopes ==
  \A i \in 2..Len(stack) :
    stack[i].statement \in {"ifStatement", "elseStatement"} =>
      stack[i].scope = stack[i - 1].scope

\* every CaseStatement has an arm, and only its last arm may be the else arm
CaseNodes ==
  \A n \in NodeSet :
    n.type = "CaseStatement" =>
      /\ Len(n.arms) >= 1
      /\ \A k \in 1..Len(n.arms) :
           /\ n.arms[k].type = "Arm"
           /\ n.arms[k].condition.type = "Boolean" =>
                k = Len(n.arms) /\ n.arms[k].condition.value = <<"true">>

\* the if statements of IfCases: one CaseStatement, an Arm per tag in source
\* order with the tag's condition and the pieces of its branch
IfCasesParsed ==
  code \in IfSources =>
  \A arms \in IfCases :
    code = IfSource(arms) =>
      /\ ~ParseFailed
      /\ ProcessDone =>
           /\ Len(RootBody) = 1
           /\ RootBody[1].type = "CaseStatement"
           /\ Len(RootBody[1].arms) = Len(arms)
           /\ \A k \in 1..Len(arms) :
                /\ Tree(RootBody[1].arms[k].condition) = arms[k].condition
                /\ Shapes(RootBody[1].arms[k].body) = arms[k].body

\* the step of an if, elif or else tag that parses: nothing is appended to the
\* bodies of the contexts around the statement, and the new arm starts empty
ArmStep ==
  (pc = "process" /\ Keyword.method \in {"if", "elif", "else"} /\ pc' = "process") =>
    LET q == Keyword.p.stack
        around == IF Keyword.method = "if" THEN Len(q) ELSE Len(q) - 1
    IN /\ Len(stack') = around + 1
       /\ \A i \in 1..around : stack'[i].body = q[i].body
       /\ stack'[around + 1].body = <<>>
       /\ stack'[around + 1].scope = stack'[around].scope
       /\ Len(stack'[around + 1].arms) =
            IF Keyword.method = "if" THEN 0 ELSE Len(q[Len(q)].arms) + 1

\* the step of an endif tag that parses: one CaseStatement more on the body of
\* the enclosing context, holding the arms closed before and the last arm
EndifStep ==
  (pc = "process" /\ Keyword.method = "endif" /\ pc' = "process") =>
    LET q == Keyword.p.stack
        before == q[Len(q) - 1].body
        after == stack'[Len(stack')].body
    IN /\ Len(stack') = Len(q) - 1
       /\ \A i \in 1..(Len(q) - 2) : stack'[i].body = q[i].body
       /\ Len(after) = Len(before) + 1
       /\ SubSeq(after, 1, Len(before)) = before
       /\ after[Len(after)].type = "CaseStatement"
       /\ Len(after[Len(after)].arms) = Len(q[Len(q)].arms) + 1
       /\ SubSeq(after[Len(after)].arms, 1, Len(q[Len(q)].arms)) = q[Len(q)].arms
       /\ Shapes(after[Len(after)].arms[Len(q[Len(q)].arms) + 1].body)
            = Shapes(q[Len(q)].body)

----------------------------------------------------------------------------
(* C12 *)

\* does an else tag open, or close, at offset i of the source?  (the sources
\* write their tags with single spaces)
OpensElse(i) ==
  i + 7 <= Len(code) /\ SubSeq(code, i + 1, i + 7) = <<"{", "%", " ", "e", "l", "s", "e">>
ClosesElse(i) ==
  /\ i >= 5
  /\ i + 2 <= Len(code)
  /\ SubSeq(code, i - 4, i + 2) = <<"e", "l", "s", "e", " ", "%", "}">>

BooleanNodes == {n \in NodeSet : n.type = "Boolean"}

\* C12 as stated: the Boolean(true) of an else arm has a zero-width span at the
\* closing `%}` of the `{% else %}` tag.
C12_ElseAtCloser ==
  \A n \in BooleanNodes : n.start = n.end /\ ClosesElse(n.start.offset)

\* every Boolean is the condition of an else arm: zero width, at the `{%` of an
\* else tag, where its Arm starts as well
ElseConditions ==
  /\ \A n \in BooleanNodes :
       n.value = <<"true">> /\ n.start = n.end /\ OpensElse(n.start.offset)
  /\ \A n \in NodeSet :
       (n.type = "Arm" /\ n.condition.type = "Boolean") => n.condition.start = n.start

\* the step of the else tag of an if: the new arm's condition is the Boolean at
\* the tag's opener, the next `{%` of the source after the text before it
ElseStep ==
  (pc = "process" /\ Keyword.method = "else" /\ pc' = "process") =>
    LET c == stack'[Len(stack')].arm.condition IN
    /\ c.type = "Boolean"
    /\ c.start = c.end
    /\ c.start.offset = NextOpener(start.offset)
    /\ OpensElse(c.start.offset)

\* C12 as amended: the Boolean(true) of an else arm has a zero-width span
\* (start = end) at the opening `{%` of the `{% else %}` tag.
C12_ElseAtOpener == []ElseConditions /\ [][ElseStep]_vars

\* an if with an else after a text has been parsed: the Boolean of the else arm
\* is past the start of the source
C12_Witness ==
  /\ pc = "generate"
  /\ \E n \in BooleanNodes : n.start.offset > 10 /\ n.start = n.end

----------------------------------------------------------------------------
(* C13 *)

\* a pattern without its spans
PatternTree(n) ==
  IF n.type = "Unpack"
    THEN [type |-> "Unpack", names |-> [i \in 1..Len(n.names) |-> Tree(n.names[i])]]
    ELSE Tree(n)

\* the context of a for carries a Scope of its own, which starts after the for
\* tag; the context of the else of a for carries the scope of the context below
ForScopes ==
  \A i \in 2..Len(stack) :
    /\ stack[i].statement = "forStatement" =>
         /\ stack[i].scope # stack[i - 1].scope
         /\ stack[i].scope.start.offset = TagEnd(stack[i].template.start.offset, <<"%", "}">>)
    /\ stack[i].statement = "forElseStatement" => stack[i].scope = stack[i - 1].scope

\* the for loops of ForCases: one ForLoop with the pattern, the iterable up to
\* `if` or `%}`, the filter after `if` or null, the body as a Scope that starts
\* after the for tag, the alternative null or the list of the else branch
ForCasesParsed ==
  code \in ForSources =>
  \A c \in ForCases :
    code = ForSource(c) =>
      /\ ~ParseFailed
      /\ ProcessDone =>
           /\ Len(RootBody) = 1
           /\ RootBody[1].type = "ForLoop"
           /\ PatternTree(RootBody[1].pattern) = c.pattern.tree
           /\ Tree(RootBody[1].iterable) = c.iterable.tree
           /\ Tree(RootBody[1].filter) = c.filter.tree
           /\ (c.filter.lexemes = <<>>) <=> (RootBody[1].filter = Null)
           /\ RootBody[1].body.type = "Scope"
           /\ RootBody[1].body.variables = <<>>
           /\ RootBody[1].body.start.offset = Len(ForTag(c))
           /\ Shapes(RootBody[1].body.body) = ArmPieces(1, c.body)
           /\ IF c.alternative = "absent" THEN RootBody[1].alternative = Null
              ELSE /\ RootBody[1].alternative # Null
                   /\ Shapes(RootBody[1].alternative.list) = ArmPieces(2, c.alternative)

\* the step of a for tag, or of the else tag of a for, that parses: nothing is
\* appended to the bodies around the loop, and the new context starts empty
ForStep ==
  (pc = "process" /\ Keyword.method \in {"for", "elsefor"} /\ pc' = "process") =>
    LET q == Keyword.p.stack
        around == IF Keyword.method = "for" THEN Len(q) ELSE Len(q) - 1
    IN /\ Len(stack') = around + 1
       /\ \A i \in 1..around : stack'[i].body = q[i].body
       /\ stack'[around + 1].body = <<>>
       /\ stack'[around + 1].template.type = "ForLoop"
       /\ Keyword.method = "elsefor" =>
            /\ stack'[around + 1].template.body.type = "Scope"
            /\ stack'[around + 1].template.body.body = q[Len(q)].body

\* the step of an endfor tag that parses: one ForLoop more on the body of the
\* enclosing context, with the placeables collected since the for or else tag
EndforStep ==
  (pc = "process" /\ Keyword.method \in {"endfor", "endforelse"} /\ pc' = "process") =>
    LET q == Keyword.p.stack
        before == q[Len(q) - 1].body
        after == stack'[Len(stack')].body
        loop == after[Len(after)]
    IN /\ Len(stack') = Len(q) - 1
       /\ \A i \in 1..(Len(q) - 2) : stack'[i].body = q[i].body
       /\ Len(after) = Len(before) + 1
       /\ SubSeq(after, 1, Len(before)) = before
       /\ loop.type = "ForLoop"
       /\ loop.body.type = "Scope"
       /\ IF Keyword.method = "endfor"
            THEN loop.alternative = Null /\ loop.body.body = q[Len(q)].body
            ELSE /\ loop.alternative # Null
                 /\ loop.alternative.list = q[Len(q)].body
                 /\ loop.body = q[Len(q)].template.body

----------------------------------------------------------------------------
(* C14 *)

\* the names of the CallBlocks in a node, a list of nodes, or below them
RECURSIVE CallBlockNames(_)
CallBlockNames(n) ==
  LET Each(nodes) == UNION {CallBlockNames(nodes[i]) : i \in 1..Len(nodes)} IN
  IF n \in {Undefined, Null} THEN {}
  ELSE IF n.type = "CallBlock" THEN {n.name.value}
  ELSE IF n.type = "Template"
    THEN CallBlockNames(n.body) \cup Each(n.blocks) \cup Each(n.macros)
  ELSE IF n.type = "Scope" THEN Each(n.body)
  ELSE IF n.type = "CaseStatement"
    THEN UNION {Each(n.arms[i].body) : i \in 1..Len(n.arms)}
  ELSE IF n.type = "ForLoop"
    THEN CallBlockNames(n.body)
           \cup (IF n.alternative = Null THEN {} ELSE Each(n.alternative.list))
  ELSE IF n.type \in {"Block", "Macro", "MacroCall"} THEN CallBlockNames(n.body)
  ELSE IF n.type = "Filter" /\ "body" \in DOMAIN n THEN CallBlockNames(n.body)
  ELSE {}

\* every CallBlock of the returned Template names a Block of Template.blocks,
\* and the lookup of the lowering yields that Block
CallBlocksDefined ==
  ast # Undefined =>
    \A name \in CallBlockNames(ast) :
      /\ \E i \in 1..Len(ast.blocks) : ast.blocks[i].name.value = name
      /\ TableGet(ast.blocks, name) \notin {Undefined, ObjectPrototype}
      /\ TableGet(ast.blocks, name).type = "Block"

\* the step of an endblock tag that parses: one CallBlock more on the body of
\* the enclosing context, with the name and the start of the block tag and no
\* body; the Block of that name in the table has the placeables of the block
\* as the body of its Scope
EndblockStep ==
  (pc = "process" /\ Keyword.method = "endblock" /\ pc' = "process") =>
    LET q == Keyword.p.stack
        top == q[Len(q)]
        before == q[Len(q) - 1].body
        after == stack'[Len(stack')].body
        call == after[Len(after)]
    IN /\ Len(stack') = Len(q) - 1
       /\ Len(after) = Len(before) + 1
       /\ SubSeq(after, 1, Len(before)) = before
       /\ call.type = "CallBlock"
       /\ call.name = top.template.name
       /\ call.start = top.template.start
       /\ "body" \notin DOMAIN call
       /\ \E b \in {ObjectValues(blocks')[i] : i \in 1..Len(ObjectValues(blocks'))} :
            /\ b.type = "Block"
            /\ b.name = top.template.name
            /\ b.start = call.start
            /\ b.body.type = "Scope"
            /\ b.body.body = top.body

\* C14: each `{% block n %}..{% endblock %}` appends a CallBlock of name n,
\* without a body, where the block stands and registers the Block n, whose body
\* is a Scope, in the table of blocks; every CallBlock of a returned Template
\* names a Block of Template.blocks, so the lookup of the lowering finds it.
C14_Blocks == []CallBlocksDefined /\ [][EndblockStep]_vars

\* the block named by ProtoName has been parsed: its CallBlock is in the body of
\* the Template, Template.blocks is empty and the lowering has thrown
C14_Witness ==
  /\ pc = "error"
  /\ err = TypeError
  /\ ast # Undefined
  /\ ast.blocks = <<>>
  /\ Len(ast.body.body) = 1
  /\ ast.body.body[1].type = "CallBlock"
  /\ ast.body.body[1].name.value = ProtoName

\* the claim holds for the blocks of every other name
C14_OwnNames ==
  /\ [](ProtoName \notin CallBlockNames(ast) => CallBlocksDefined)
  /\ [][Keyword.p.stack # <<>> /\ Keyword.p.stack[Len(Keyword.p.stack)].template # Undefined
        /\ "name" \in DOMAIN Keyword.p.stack[Len(Keyword.p.stack)].template
        /\ Keyword.p.stack[Len(Keyword.p.stack)].template.name.value # ProtoName
        => EndblockStep]_vars

----------------------------------------------------------------------------
(* C15 *)

\* a table has at most one entry per name
OnePerName(table) ==
  \A i, j \in 1..Len(table) : table[i].name.value = table[j].name.value => i = j

\* the position of the last definition of a kind and a name in a sequence of Defs
LastDef(q, d) == CHOOSE k \in 1..Len(q) : q[k] = d /\ \A j \in (k + 1)..Len(q) : q[j] # d

\* the table of one kind holds, for every name defined in q, the definition that
\* comes last in q: the one that starts where that definition starts
LastKept(q, kind, table) ==
  \A k \in 1..Len(q) :
    q[k].kind = kind =>
      \E i \in 1..Len(table) :
        /\ table[i].name.value = q[k].name
        /\ table[i].start.offset = Len(DefsSource(SubSeq(q, 1, LastDef(q, q[k]) - 1)))

\* the templates of DefSources: no error, and the tables of the parser and of
\* the Template keep the last definition of every name
DefsKept ==
  code \in DefSources =>
  \A q \in DefSeqs :
    code = DefsSource(q) =>
      /\ ~ParseFailed
      /\ ProcessDone =>
           /\ LastKept(q, "block", ObjectValues(blocks))
           /\ LastKept(q, "macro", ObjectValues(macros))
      /\ ast # Undefined =>
           LastKept(q, "block", ast.blocks) /\ LastKept(q, "macro", ast.macros)

\* the tables have one entry per name, in the parser and in the Template
TablesOnePerName ==
  /\ OnePerName(blocks) /\ OnePerName(macros)
  /\ ast # Undefined => OnePerName(ast.blocks) /\ OnePerName(ast.macros)

\* C15: Template.blocks and Template.macros hold at most one entry per name;
\* when a name is defined more than once, without an error the definition that
\* comes last in the source is the one kept.
C15_LastDefinition == TablesOnePerName /\ DefsKept

\* the block named by ProtoName has been defined twice, and the Template keeps
\* no definition of it
C15_Witness ==
  /\ code = DefsSource(<<[kind |-> "block", name |-> ProtoName],
                         [kind |-> "block", name |-> ProtoName]>>)
  /\ ast # Undefined
  /\ ast.blocks = <<>>
  /\ Len(ast.body.body) = 2

\* a block of another name has been defined twice: the Template keeps the second
C15_SecondKept ==
  /\ code = DefsSource(<<[kind |-> "block", name |-> Id.b],
                         [kind |-> "block", name |-> Id.b]>>)
  /\ ast # Undefined
  /\ Len(ast.blocks) = 1
  /\ ast.blocks[1].start.offset = Len(DefSource([kind |-> "block", name |-> Id.b]))

\* the claim holds for the definitions of every other name
C15_OwnNames ==
  /\ TablesOnePerName
  /\ (\A i \in 1..(Len(code) - 1) : SubSeq(code, i, i + 1) # <<"_", "_">>) => DefsKept

----------------------------------------------------------------------------
(* C16 *)

\* the cursor, and where the next lexeme starts: after the whitespace
Cursor == Loc(offset, line, column)
LexemeStart == SkipWhile(Cursor, Whitespace)

\* a source that is one lexeme of S lexes to the Symbol of that lexeme, from 0
\* to its length
LexedAlone(S) ==
  (code \in S /\ token.type \notin {"None", "EndOfStream"}) =>
    /\ token.type = "Symbol"
    /\ token.value = code
    /\ token.start.offset = 0
    /\ token.end.offset = Len(code)

\* a call of next() where the text starts with a symbol of two characters
\* returns that symbol
LongestMatch ==
  \A s \in {t \in SymbolLexemes : Len(t) = 2} :
    (/\ LexemeStart.offset + 2 <= Len(code)
     /\ SubSeq(code, LexemeStart.offset + 1, LexemeStart.offset + 2) = s) =>
      /\ token'.type = "Symbol"
      /\ token'.value = s
      /\ token'.start.offset = LexemeStart.offset
      /\ token'.end.offset = LexemeStart.offset + 2
      /\ offset' = LexemeStart.offset + 2

\* C16: a source that consists of one lexeme of the symbol table, or of `[` or
\* `]`, lexes to a Symbol whose value is the lexeme and whose span is [0, |s|);
\* where the text at the cursor starts with a symbol of two characters, that
\* symbol is the token and not its first character.
C16_Symbols ==
  /\ [](LexedAlone(SymbolLexemes \cup {<<"[">>, <<"]">>}))
  /\ [][LongestMatch]_vars

\* `[` has been lexed to a Character
C16_Witness ==
  /\ code = <<"[">>
  /\ token.type = "Character"
  /\ token.value = <<"[">>
  /\ token.start.offset = 0
  /\ token.end.offset = 1

\* the claim holds for the lexemes of the table
C16_TableSymbols == [](LexedAlone(SymbolLexemes)) /\ [][LongestMatch]_vars

----------------------------------------------------------------------------
(* C17 *)

\* the number of newlines in a text
RECURSIVE Newlines(_)
Newlines(text) ==
  IF text = <<>> THEN 0
  ELSE (IF Head(text) = "\n" THEN 1 ELSE 0) + Newlines(Tail(text))

\* the lexer has consumed the source
Consumed == token.type = "EndOfStream"

\* C17: once the lexer has consumed the source, line is 1 plus the number of
\* newlines of the source, wherever they are, the first character included.
C17_LineCount == Consumed => line = 1 + Newlines(code)

\* a source that starts with a newline has been consumed, and line is the
\* number of its newlines
C17_Witness ==
  /\ Consumed
  /\ code # <<>>
  /\ Head(code) = "\n"
  /\ Len(code) > 1
  /\ line = Newlines(code)

\* the newlines after the first character are counted, each once, and the
\* column of a newline the cursor is on is 0
C17_AfterFirst ==
  /\ line = 1 + Newlines(SubSeq(code, 2, IF offset < Len(code) THEN offset + 1 ELSE Len(code)))
  /\ (offset > 0 /\ Chr(Cursor) = "\n") => column = 0

----------------------------------------------------------------------------
(* C18 *)

\* the body of a template of QuoteCases: the text with its quotes, the node of
\* the tag, the text after the tag with its quotes
QuoteBody(c) ==
  <<[type |-> "Text", text |-> c.text], [type |-> c.tag.type]>>
    \o (IF c.tail = <<>> THEN <<>> ELSE <<[type |-> "Text", text |-> c.tail]>>)

\* the scan from the start of such a template stops at the tag after the quote
OpenerFound ==
  \A c \in QuoteCases :
    (code = QuoteSource(c) /\ pc = "process" /\ offset = 0) =>
      /\ Scan(Cursor).found
      /\ Scan(Cursor).tok.type = "Symbol"
      /\ Scan(Cursor).tok.start.offset = Len(c.text)

\* such a template parses, the quotes stay in its Texts
QuotesKept ==
  \A c \in QuoteCases :
    code = QuoteSource(c) =>
      /\ ~ParseFailed
      /\ ProcessDone =>
           /\ [i \in 1..Len(RootBody) |->
                 IF RootBody[i].type = "Text" THEN Shape(RootBody[i])
                 ELSE [type |-> RootBody[i].type]] = QuoteBody(c)
           /\ RootBody[1].start.offset = 0
           /\ RootBody[1].end.offset = Len(c.text)

\* C18: the scan for tags lexes without strings: a quote in the text of a
\* template opens no string, a `{{` or `{%` after a quote without a match is
\* found as the opener of a tag, and the quote is in the Text node.
C18_QuotesInText == code \in QuoteSources => OpenerFound /\ QuotesKept

\* `it's {{ x }}'` has been parsed to the Text `it's `, a PutValue and the Text `'`
C18_Witness ==
  /\ code = <<"i", "t", "'", "s", " ">> \o ValueTag(<<Id.x>>) \o <<"'">>
  /\ pc = "generate"
  /\ Len(RootBody) = 3
  /\ RootBody[1].type = "Text"
  /\ RootBody[1].text = <<"i", "t", "'", "s", " ">>
  /\ RootBody[2].type = "PutValue"
  /\ RootBody[3].text = <<"'">>

----------------------------------------------------------------------------
(* C19 *)

\* the number of backslashes that end at position k (from 1) of the source,
\* none of them before position low
RECURSIVE Backslashes(_, _)
Backslashes(k, low) ==
  IF k >= low /\ code[k] = "\\" THEN 1 + Backslashes(k - 1, low) ELSE 0

\* the positions after an opening quote at position open where the same quote
\* stands unescaped
Closers(open) ==
  {k \in (open + 1)..Len(code) :
     code[k] = code[open] /\ Backslashes(k - 1, open + 1) % 2 = 0}

Min(S) == CHOOSE k \in S : \A j \in S : k <= j

\* a call of next(true) at a quote: one String from the quote to just after
\* its first unescaped match; without a match the String holds the rest of the
\* source and the source is at its end; no error
StringStep ==
  (withStrings' /\ Chr(LexemeStart) \in Quotes) =>
    LET open == LexemeStart.offset + 1 IN
    /\ token'.type = "String"
    /\ token'.start = LexemeStart
    /\ token'.end.offset = offset'
    /\ err' = NoErr
    /\ IF Closers(open) # {}
         THEN token'.end.offset = Min(Closers(open))
         ELSE /\ token'.end.offset >= Len(code)
              /\ Substr(token'.start, token'.end) = SubSeq(code, open, Len(code))
              /\ Eos(Loc(offset', line', column'))

C19_Unterminated ==
  /\ code = <<"'", "a", "\"">>
  /\ withStrings
  /\ token.type = "String"
  /\ token.start.offset = 0
  /\ Eos(Cursor)

----------------------------------------------------------------------------
(* C20 *)

\* the children of a node: the nodes it holds, null and undefined left out
Children(n) ==
  LET Some(c) == IF c \in {Null, Undefined} THEN <<>> ELSE <<c>>
      Each(cs) == SelectSeq(cs, LAMBDA c : c \notin {Null, Undefined})
  IN
  IF n.type = "Template" THEN <<n.body>> \o n.blocks \o n.macros
  ELSE IF n.type = "Scope" THEN n.body
  ELSE IF n.type = "PutValue" THEN Some(n.value) \o Each(n.filters)
  ELSE IF n.type = "CaseStatement" THEN n.arms
  ELSE IF n.type = "Arm" THEN Some(n.condition) \o n.body
  ELSE IF n.type = "ForLoop" THEN
    Some(n.pattern) \o Some(n.iterable) \o Some(n.filter) \o Some(n.body)
      \o (IF n.alternative = Null THEN <<>> ELSE n.alternative.list)
  ELSE IF n.type = "Unpack" THEN n.names
  ELSE IF n.type = "Macro" THEN <<n.name>> \o n.args \o Some(n.body)
  ELSE IF n.type = "Argument" THEN <<n.name>> \o Some(n.default)
  ELSE IF n.type = "MacroCall" THEN <<n.macro>> \o Each(n.args) \o Some(n.body)
  ELSE IF n.type \in {"Block", "CallBlock"} THEN
    <<n.name>> \o (IF "body" \in DOMAIN n THEN Some(n.body) ELSE <<>>)
  ELSE IF n.type = "Filter" THEN
    IF "body" \in DOMAIN n THEN Some(n.filter) \o Some(n.body)
    ELSE Some(n.value) \o Some(n.filter)
  ELSE IF n.type = "Assign" THEN Some(n.pattern) \o Some(n.value)
  ELSE IF n.type = "BinOp" THEN Some(n.left) \o Some(n.right)
  ELSE IF n.type = "Member" THEN Some(n.object) \o Some(n.property)
  ELSE IF n.type = "FunctionCall" THEN Some(n.function) \o Each(n.args)
  ELSE <<>>

\* a node has a span, its start is not after its end
Spanned(n) ==
  /\ n.start # Undefined
  /\ n.end # Undefined
  /\ n.start.offset <= n.end.offset

\* a node and every node below it starts before it ends, and lies within its parent
RECURSIVE SpansNested(_)
SpansNested(n) ==
  /\ Spanned(n)
  /\ \A i \in 1..Len(Children(n)) :
       LET c == Children(n)[i] IN
       /\ Spanned(c)
       /\ n.start.offset <= c.start.offset
       /\ c.end.offset <= n.end.offset
       /\ SpansNested(c)

\* C20: in every Template the parser returns, every node starts at or before
\* its end, and every child starts at or after the start of its parent and ends
\* at or before the end of its parent.
C20_Spans == ast # Undefined => SpansNested(ast)

\* `{{ f(x).g }}` has been parsed to a call of f whose argument, the Member of
\* x and g, ends after the call
C20_Witness ==
  /\ code = ValueTag(<<(<<"f", "(", "x", ")", ".", "g">>)>>)
  /\ ast # Undefined
  /\ ast.body.body[1].value.type = "FunctionCall"
  /\ ast.body.body[1].value.args[1].type = "Member"
  /\ ast.body.body[1].value.args[1].end.offset > ast.body.body[1].value.end.offset

\* a `.` follows a `)` in the source
MemberAfterCall ==
  \E i \in 1..(Len(code) - 1) :
    /\ code[i] = ")"
    /\ \/ code[i + 1] = "."
       \/ i + 2 <= Len(code) /\ code[i + 1] = " " /\ code[i + 2] = "."

\* the claim holds for the Templates of the sources without a `.` after a call
C20_WithoutMemberAfterCall == (ast # Undefined /\ ~MemberAfterCall) => SpansNested(ast)

\* a Template with an if statement of three arms around texts and a placeable
\* has been returned
C20_Nested ==
  /\ ast # Undefined
  /\ Len(ast.body.body) = 1
  /\ ast.body.body[1].type = "CaseStatement"
  /\ Len(ast.body.body[1].arms) = 3
  /\ Len(ast.body.body[1].arms[3].body) = 2

----------------------------------------------------------------------------
(* C21 *)

\* the expression nodes of the state
ExprTypes == {"Variable", "BinOp", "Member", "FunctionCall", "Filter", "Number", "String"}
ExprNodes == {n \in NodeSet : n.type \in ExprTypes /\ "body" \notin DOMAIN n}

\* the text of a span
SpanText(n) == SubSeq(code, n.start.offset + 1, n.end.offset)

\* the parentheses of a text match: none closes before it opens, none stays open
RECURSIVE Depths(_, _)
Depths(text, d) ==
  IF text = <<>> THEN <<d>>
  ELSE <<d>> \o Depths(Tail(text), d + (IF Head(text) = "(" THEN 1
                                        ELSE IF Head(text) = ")" THEN -1 ELSE 0))

Balanced(text) ==
  /\ \A i \in 1..Len(Depths(text, 0)) : Depths(text, 0)[i] >= 0
  /\ Depths(text, 0)[Len(text) + 1] = 0

\* the position (from 1) of the `)` that closes the `(` at position open
Closer(open) ==
  LET d == Depths(SubSeq(code, open, Len(code)), 0) IN
  open - 1 + (CHOOSE k \in 1..(Len(d) - 1) : d[k + 1] = 0 /\ \A j \in 2..k : d[j] > 0)

\* the position (from 1) of the first character at or after offset o that is no space
RECURSIVE NoSpace(_)
NoSpace(o) == IF o < Len(code) /\ code[o + 1] = " " THEN NoSpace(o + 1) ELSE o + 1

\* the span of an expression node is the text of the expression: of a Variable
\* its name; of a FunctionCall the text from its callee to the `)` that closes
\* the `(` after the callee; of every node a text whose parentheses match
SpanIsText(n) ==
  /\ n.start.offset <= n.end.offset
  /\ n.end.offset <= Len(code)
  /\ Balanced(SpanText(n))
  /\ n.type = "Variable" => SpanText(n) = n.name
  /\ n.type = "FunctionCall" =>
       /\ n.start = n.function.start
       /\ n.end.offset = Closer(NoSpace(n.function.end.offset))

\* C21: the span of every expression node the expression parser produced is
\* the text of that sub-expression; the span of a FunctionCall runs from the
\* first character of its callee to the end of its own `)`, also for a call
\* among the arguments of another call or inside grouping parentheses.
C21_Spans == \A n \in ExprNodes : SpanIsText(n)

\* in `{{ f(g()) }}` the call of g ends after the `)` of the call of f
C21_Witness ==
  /\ code = ValueTag(<<(<<"f", "(", "g", "(", ")", ")">>)>>)
  /\ pc = "generate"
  /\ RootBody[1].value.type = "FunctionCall"
  /\ RootBody[1].value.args[1].type = "FunctionCall"
  /\ RootBody[1].value.args[1].start.offset = 5
  /\ RootBody[1].value.args[1].end.offset = 9
  /\ RootBody[1].value.end.offset = 9

\* in `{{ (f(x)) }}` the call of f ends after the `)` of the grouping
C21_Grouped ==
  /\ code = ValueTag(<<(<<"(", "f", "(", "x", ")", ")">>)>>)
  /\ pc = "generate"
  /\ RootBody[1].value.type = "FunctionCall"
  /\ RootBody[1].value.start.offset = 4
  /\ RootBody[1].value.end.offset = 9

\* the span of a Variable is its name, and the span of a call whose `)` is not
\* followed by another `)` runs from its callee to that `)`
C21_FollowedByNoCloser ==
  \A n \in ExprNodes :
    /\ n.type = "Variable" => SpanText(n) = n.name
    /\ n.type = "FunctionCall" =>
         LET close == Closer(NoSpace(n.function.end.offset)) IN
         /\ n.start = n.function.start
         /\ (NoSpace(close) > Len(code) \/ code[NoSpace(close)] # ")") =>
              n.end.offset = close

----------------------------------------------------------------------------
(* C22 *)

\* compile() has thrown a SyntaxError
SyntaxErrorThrown == pc = "error" /\ err.name = "SyntaxError"

\* the error has a location with a start and an end, its message carries the
\* line and the column of the start, and the start is on the first character
\* of a token: on no whitespace, or at the end of the source
WellLocated(e) ==
  /\ e.location # Undefined
  /\ e.location.start # Undefined
  /\ e.location.end # Undefined
  /\ e.message.line = e.location.start.line
  /\ e.message.column = e.location.start.column
  /\ e.location.start.offset <= e.location.end.offset
  /\ e.location.start.offset <= Len(code)
  /\ Chr(e.location.start) \notin Whitespace

\* C22: every SyntaxError that is thrown has a location with a start and an end
\* span and a message `(line:column) text` with the line and column of the
\* start, which is on the first character of the offending token; so for
\* 'Unclosed block' and for the errors of the yard.
C22_SyntaxErrors == SyntaxErrorThrown => WellLocated(err)

\* generate() has thrown 'Unclosed block' with a location that has no end
C22_Witness ==
  /\ SyntaxErrorThrown
  /\ err.message.text = "Unclosed block"
  /\ err.location.start # Undefined
  /\ err.location.end = Undefined

\* every SyntaxError other than 'Unclosed block' is located as the claim says
C22_OtherErrors == (SyntaxErrorThrown /\ ~UnclosedBlock(err)) => WellLocated(err)

\* the yard has thrown 'Expression produced more than one value' at the second value
C22_YardError ==
  /\ SyntaxErrorThrown
  /\ err.message.text = "Expression produced more than one value"
  /\ WellLocated(err)

----------------------------------------------------------------------------
(* C23: what compile() returns *)

\* compile() returned its Program
Returned == pc = "done"

\* the object the module exports by default
Exported == program.body[1].declaration

\* the value of the property `name` of an ObjectExpression with such a property
PropertyValue(obj, name) ==
  obj.properties[CHOOSE i \in 1..Len(obj.properties) : obj.properties[i].key.name = name].value

\* the names of the properties of an ObjectExpression, in order
PropertyNames(obj) == [i \in 1..Len(obj.properties) |-> obj.properties[i].key.name]

\* a function expression that is a generator
IsGenerator(fn) == fn.type = "FunctionExpression" /\ fn.generator

\* C23: whenever compile returns, its result is a Program of sourceType 'module'
\* whose body is exactly one ExportDefaultDeclaration of an object expression
\* with exactly the properties macros, generate and render (none for blocks);
\* generate is a generator function, render a function that is no generator,
\* and macros has exactly one generator-valued property per macro of
\* Template.macros, under the macro's name
C23_Module ==
  Returned =>
    /\ program.type = "Program"
    /\ program.sourceType = "module"
    /\ Len(program.body) = 1
    /\ program.body[1].type = "ExportDefaultDeclaration"
    /\ Exported.type = "ObjectExpression"
    /\ Len(Exported.properties) = 3
    /\ {PropertyNames(Exported)[i] : i \in 1..3} = {<<"macros">>, <<"generate">>, <<"render">>}
    /\ IsGenerator(PropertyValue(Exported, <<"generate">>))
    /\ PropertyValue(Exported, <<"render">>).type = "FunctionExpression"
    /\ ~PropertyValue(Exported, <<"render">>).generator
    /\ LET table == PropertyValue(Exported, <<"macros">>) IN
       /\ table.type = "ObjectExpression"
       /\ Len(table.properties) = Len(ast.macros)
       /\ \A i \in 1..Len(ast.macros) :
            /\ table.properties[i].key.name = ast.macros[i].name.value
            /\ IsGenerator(table.properties[i].value)

\* compile() returned for a template that defines two macros
C23_Witness == Returned /\ Len(ast.macros) = 2

\* compile() returned for a template that defines a block
C23_WithBlock == Returned /\ Len(ast.blocks) > 0

----------------------------------------------------------------------------
(* C24: the guard of a filtered for loop *)

\* the nodes directly below a node of the emitted tree
EstChildren(n) ==
  IF n.type = "Program" THEN n.body
  ELSE IF n.type = "ExportDefaultDeclaration" THEN <<n.declaration>>
  ELSE IF n.type = "ObjectExpression" THEN n.properties
  ELSE IF n.type = "Property" THEN <<n.key, n.value>>
  ELSE IF n.type \in {"FunctionExpression", "ArrowFunctionExpression"} THEN
    n.params \o <<n.body>>
  ELSE IF n.type = "BlockStatement" THEN n.body
  ELSE IF n.type = "ExpressionStatement" THEN <<n.expression>>
  ELSE IF n.type \in {"YieldExpression", "UpdateExpression", "ReturnStatement"} THEN
    <<n.argument>>
  ELSE IF n.type = "CallExpression" THEN <<n.callee>> \o n.arguments
  ELSE IF n.type = "MemberExpression" THEN <<n.object, n.property>>
  ELSE IF n.type \in {"BinaryExpression", "AssignmentExpression"} THEN <<n.left, n.right>>
  ELSE IF n.type = "VariableDeclaration" THEN n.declarations
  ELSE IF n.type = "VariableDeclarator" THEN <<n.id, n.init>>
  ELSE IF n.type = "IfStatement" THEN <<n.test, n.consequent, n.alternate>>
  ELSE IF n.type = "ForStatement" THEN <<n.update, n.body>>
  ELSE <<>>

\* every node of an emitted tree
RECURSIVE EstNodes(_)
EstNodes(n) ==
  {n} \cup UNION {EstNodes(EstChildren(n)[i]) : i \in 1..Len(EstChildren(n))}

\* the ForLoop nodes of the template that have a filter
FilteredLoops ==
  {n \in NodeSet : n.type = "ForLoop" /\ n.filter \notin {Null, Undefined}}

\* `!expr`
EstNot(expr) ==
  [type |-> "UnaryExpression", operator |-> <<"!">>, prefix |-> TRUE, argument |-> expr]

\* `continue`
EstContinue == [type |-> "ContinueStatement", label |-> Null]

\* the emitted loop f is the lowering of the ForLoop n as far as its head goes:
\* the item, the new context, the assignment of item.value to the pattern, and
\* then the statement `guard(filter)`
LoweredHead(f, n, guard(_)) ==
  LET b == f.body.body IN
  /\ f.type = "ForStatement"
  /\ Len(b) >= 5
  /\ b[1].type = "VariableDeclaration"
  /\ b[3].type = "VariableDeclaration"
  /\ LET item == b[1].declarations[1].id
         inner == b[3].declarations[1].id
     IN /\ b[4] = EstStatement(EstSet(Expression(n.pattern, inner, FALSE), <<"=">>,
                                      EstMember(item, EstIdent(<<"value">>))))
        /\ b[5] = guard(Expression(n.filter, inner, FALSE))

\* `if (!filter) continue` and `if (filter) continue`
SkipUnlessFilter(filter) == EstIf(EstNot(filter), <<EstContinue>>, Null)
SkipIfFilter(filter) == EstIf(filter, <<EstContinue>>, Null)

\* C24: a ForLoop with a filter lowers, after the assignment of item.value to
\* the pattern and before the body, to the guard `if (!filter) continue`, so
\* that the body runs exactly for the items whose filter is truthy
C24_FilterGuard ==
  Returned =>
    \A n \in FilteredLoops :
      \E f \in EstNodes(program) : LoweredHead(f, n, SkipUnlessFilter)

\* compile() returned for a template with a filtered for loop that has a body
C24_Witness ==
  /\ Returned
  /\ \E n \in FilteredLoops :
       /\ Len(n.body.body) > 0
       /\ \E f \in EstNodes(program) :
            /\ LoweredHead(f, n, SkipIfFilter)
            /\ Len(f.body.body) > 5

\* what the lowering does: the guard is `if (filter) continue`
C24_SkipsTruthy ==
  Returned =>
    \A n \in FilteredLoops :
      \E f \in EstNodes(program) : LoweredHead(f, n, SkipIfFilter)

----------------------------------------------------------------------------
(* C25: block filters *)

\* the block Filter nodes of the template
BlockFilters == {n \in NodeSet : n.type = "Filter" /\ "body" \in DOMAIN n}

\* the statements of generate() after its `let __j_macros`
GenerateBody ==
  LET b == PropertyValue(Exported, <<"generate">>).body.body
  IN SubSeq(b, 2, Len(b))

\* `yield* filter((generator)())`, for some filter and some generator arrow
\* without parameters whose body is `body`
IsFilterYield(s, body) ==
  /\ s.type = "ExpressionStatement"
  /\ s.expression.type = "YieldExpression"
  /\ s.expression.delegate
  /\ s.expression.argument.type = "CallExpression"
  /\ Len(s.expression.argument.arguments) = 1
  /\ LET inner == s.expression.argument.arguments[1] IN
     /\ inner.type = "CallExpression"
     /\ inner.arguments = <<>>
     /\ inner.callee.type = "ArrowFunctionExpression"
     /\ inner.callee.generator
     /\ inner.callee.body.body = body

\* the template is one block filter and nothing else
OneBlockFilter ==
  /\ Len(ast.body.body) = 1
  /\ ast.body.body[1] \in BlockFilters

\* the statements the body of the only block filter lowers to
FilterBodyStatements ==
  LET out == Convert(ast.body.body[1].body, ast, ContextIdent(1), 2).out
  IN [i \in 1..Len(out) |-> EstStatement(out[i])]

\* C25: the lowering of a block Filter adds exactly one statement to the
\* enclosing block, `yield* filter((generator)())`, and every statement of the
\* filter's body is inside that generator, none directly in the enclosing block
C25_FilterBlock ==
  (Returned /\ OneBlockFilter) =>
    /\ Len(GenerateBody) = 1
    /\ IsFilterYield(GenerateBody[1], FilterBodyStatements)

\* compile() returned for a block filter around a text
C25_Witness ==
  /\ Returned
  /\ OneBlockFilter
  /\ Len(FilterBodyStatements) > 0

\* what the lowering does: the statements of the body are added to the
\* enclosing block, and the generator that is called is empty
C25_BodyOutside ==
  (Returned /\ OneBlockFilter) =>
    /\ Len(GenerateBody) = Len(FilterBodyStatements) + 1
    /\ SubSeq(GenerateBody, 1, Len(FilterBodyStatements)) = FilterBodyStatements
    /\ IsFilterYield(GenerateBody[Len(GenerateBody)], <<>>)

----------------------------------------------------------------------------
(* C26: the contexts of the emitted code *)

\* an identifier `__j_ctx_N`
IsContextIdent(n) == n.type = "Identifier" /\ Len(n.name) = 2 /\ n.name[1] = "__j_ctx_"

\* the emitted generators: generator functions and generator arrows
Generators ==
  {n \in EstNodes(program) :
     n.type \in {"FunctionExpression", "ArrowFunctionExpression"} /\ n.generator}

\* the names a `let` declares
Declared(s) ==
  IF s.type = "VariableDeclaration"
    THEN {s.declarations[i].id.name : i \in 1..Len(s.declarations)}
    ELSE {}

\* the context identifiers a node refers to that are not among the names
\* `bound`: a function binds its parameters in its body, a `let` binds its
\* names in the statements of its block that follow it
RECURSIVE Unbound(_, _)
RECURSIVE UnboundFrom(_, _, _)
UnboundFrom(stmts, i, bound) ==
  IF i > Len(stmts) THEN {}
  ELSE Unbound(stmts[i], bound) \cup UnboundFrom(stmts, i + 1, bound \cup Declared(stmts[i]))
Unbound(n, bound) ==
  IF n.type = "Identifier" THEN
    IF IsContextIdent(n) /\ n.name \notin bound THEN {n.name} ELSE {}
  ELSE IF n.type = "MemberExpression" THEN
    Unbound(n.object, bound) \cup (IF n.computed THEN Unbound(n.property, bound) ELSE {})
  ELSE IF n.type = "Property" THEN Unbound(n.value, bound)
  ELSE IF n.type = "VariableDeclarator" THEN Unbound(n.init, bound)
  ELSE IF n.type \in {"FunctionExpression", "ArrowFunctionExpression"} THEN
    Unbound(n.body, bound \cup {n.params[i].name : i \in 1..Len(n.params)})
  ELSE IF n.type = "BlockStatement" THEN UnboundFrom(n.body, 1, bound)
  ELSE UNION {Unbound(EstChildren(n)[i], bound) : i \in 1..Len(EstChildren(n))}

\* C26: every emitted generator (generate, each macro, the generator of each
\* CallBlock and of each block filter) takes its context as its first
\* parameter, and every __j_ctx_N the emitted code refers to is bound by a
\* parameter of an enclosing function or by an earlier `let` of an enclosing block
C26_Contexts ==
  Returned =>
    /\ \A g \in Generators : Len(g.params) >= 1 /\ IsContextIdent(g.params[1])
    /\ Unbound(program, {}) = {}

\* compile() returned code in which a block's generator has no parameter and
\* reads a variable from a context that nothing binds
C26_Witness ==
  /\ Returned
  /\ \E n \in NodeSet : n.type = "CallBlock"
  /\ \E g \in Generators : g.params = <<>> /\ Unbound(g, {}) # {}

\* compile() returned for a template with macros or for loops that refer to
\* variables, without blocks and block filters
C26_LoopOrMacro ==
  /\ Returned
  /\ \E n \in NodeSet : n.type = "ForLoop"
  /\ \A n \in NodeSet : n.type \notin {"CallBlock", "Filter"}

\* the code emitted for templates without blocks and block filters binds
\* every context it refers to and passes one to every generator
C26_WithoutBlocks ==
  (Returned /\ \A n \in NodeSet : n.type \notin {"CallBlock", "Filter"}) =>
    /\ \A g \in Generators : Len(g.params) >= 1 /\ IsContextIdent(g.params[1])
    /\ Unbound(program, {}) = {}

----------------------------------------------------------------------------
(* C30: the lowering of every Template *)

\* parser.generate() has returned a Template and translate() has run on it
Lowered == ast # Undefined /\ pc \in {"done", "error"}

\* the node types Codegen has no method for
Unconverted == {"Number", "Boolean", "FunctionCall", "Unpack"}

\* C30: for every Template the parser returns the lowering succeeds: there is
\* a conversion for every node type the parser produces (Variable, Number,
\* String, the Boolean of an else arm, BinOp, Member, FunctionCall, Filter
\* expression, Unpack and every statement), and translate() never throws
\* 'Unknown node type'
C30_Lowers == Lowered => (pc = "done" /\ err = NoErr)

\* translate() threw 'Unknown node type' on the Template of an if with an else
C30_Witness ==
  /\ Lowered
  /\ err = UnknownNodeType
  /\ \E n \in NodeSet : n.type = "CaseStatement"
  /\ \E n \in NodeSet : n.type = "Boolean"
  /\ \A n \in NodeSet : n.type \notin Unconverted \ {"Boolean"}

\* translate() throws 'Unknown node type' only on a Template that holds a
\* Number, a Boolean, a FunctionCall or an Unpack
C30_MissingConverters ==
  (Lowered /\ err = UnknownNodeType) => \E n \in NodeSet : n.type \in Unconverted

\* translate() threw 'Unknown node type' on a Number, a FunctionCall, an Unpack
C30_OnNumber == Lowered /\ err = UnknownNodeType /\ \A n \in NodeSet : n.type \in Unconverted => n.type = "Number"
C30_OnFunctionCall == Lowered /\ err = UnknownNodeType /\ \A n \in NodeSet : n.type \in Unconverted => n.type = "FunctionCall"
C30_OnUnpack == Lowered /\ err = UnknownNodeType /\ \A n \in NodeSet : n.type \in Unconverted => n.type = "Unpack"

----------------------------------------------------------------------------
(* C27: the pushback buffer *)

\* peek(first) and then next(second) on the parser p: next() returns the
\* token peek() returned and leaves the cursor where peek() left it
PeekedIsNext(p, first, second) ==
  LET peeked == PPeek(p, first)
      taken == PNext(peeked.p, second)
  IN /\ taken.tok = peeked.tok
     /\ taken.p.loc = peeked.p.loc
     /\ taken.p.events = <<>>

\* the strings flag decides what the lexer returns at the cursor
FlagMatters == SourceNext(Cursor, TRUE).tok # SourceNext(Cursor, FALSE).tok

\* C27: the pushback buffer holds at most one token; the token peek() returns
\* is the very token the next next() returns, not lexed again, whatever the
\* strings flag of that later call; and the buffer is empty whenever process()
\* goes back to scanning the raw text
C27_Pushback ==
  /\ Len(events) <= 1
  /\ (pc = "process" => events = <<>>)
  /\ \A first, second \in BOOLEAN : PeekedIsNext(P, first, second)

\* process() is back at the raw text after a tag, with a quote at the cursor,
\* where a token lexed again with the other flag would differ
C27_Witness ==
  /\ pc = "process"
  /\ offset > 0
  /\ FlagMatters

\* a handler threw while the buffer held the token it had peeked
C27_Held == pc = "error" /\ Len(events) = 1

----------------------------------------------------------------------------
(* C28: progress of the lexer and of process() *)

\* a call of Source.next: off the end of the source it moves the cursor at
\* least one character on, at the end it returns an EndOfStream of no width
\* and leaves the cursor alone
NextAdvances ==
  pc = "lex" =>
    IF ~Eos(Cursor) THEN offset' >= offset + 1
    ELSE /\ token'.type = "EndOfStream"
         /\ token'.start = token'.end
         /\ <<offset', line', column'>> = <<offset, line, column>>

\* a step of process(): a tag handled moves the cursor on, unless process()
\* ends with the step
ProcessAdvances == (pc = "process" /\ pc' = "process") => offset' > offset

\* what is left to do: the stages of compile() that have not run and the
\* characters the cursor can still pass (a string without its closing quote
\* leaves the cursor up to two past the end), and for the lexer whether the
\* EndOfStream is still to be returned
Stages ==
  IF pc = "process" THEN 3
  ELSE IF pc = "generate" THEN 2
  ELSE IF pc = "translate" THEN 1
  ELSE IF pc = "lex" /\ token.type # "EndOfStream" THEN 1
  ELSE 0
Variant == Stages * (Len(code) + 3) + (Len(code) + 2 - offset)

\* C28: every call of Source.next that is not at the end of the source moves
\* the offset on by at least one, the offset never decreases, a call at the
\* end returns an EndOfStream with start = end and leaves the cursor
\* unchanged; so events() yields finitely many tokens and process()
\* terminates: every step takes away from a natural number
C28_Progress ==
  [][/\ NextAdvances
     /\ ProcessAdvances
     /\ offset' >= offset
     /\ Variant' < Variant
     /\ offset' <= Len(code) + 2]_vars

\* next() was called at the end of a source that is not empty and returned
\* the EndOfStream
C28_Witness ==
  /\ pc = "lex"
  /\ token.type = "EndOfStream"
  /\ token.start = token.end
  /\ Len(code) > 0
  /\ offset >= Len(code)

\* process() went through a template of two tags and returned
C28_Processed == pc = "generate" /\ Len(stack[1].body) >= 2

\* the cursor is past the end of the source after a string without its closing quote
C28_PastEnd == pc = "lex" /\ offset > Len(code)

----------------------------------------------------------------------------
(* C29: what Parser.expression returns *)

\* an expression node: one of the expression types, or the Boolean of an else arm
IsExpressionNode(v) == v.type \in ExprTypes \cup {"Boolean"}

\* the values the parser stored where a node takes an expression
ExpressionSlots(n) ==
  IF n.type = "PutValue" THEN <<n.value>> \o n.filters
  ELSE IF n.type = "Arm" THEN <<n.condition>>
  ELSE IF n.type = "ForLoop" THEN
    <<n.iterable>> \o (IF n.filter = Null THEN <<>> ELSE <<n.filter>>)
  ELSE IF n.type = "Assign" THEN <<n.value>>
  ELSE IF n.type = "MacroCall" THEN n.args
  ELSE <<>>

\* the source is `{% call m ( ) %}{% endcall %}`
EmptyCall ==
  code = StmtTag(<<Kw.call, Id.m, <<"(">>, <<")">> >>) \o StmtTag(<<Kw.endcall>>)

\* C29: whenever Parser.expression returns, its result is exactly one
\* expression node, and no tokens before the terminator are not accepted: the
\* value and the filters of a PutValue, the condition of an Arm, the iterable
\* and the filter of a ForLoop, the value of an Assign and every argument of a
\* MacroCall are expression nodes, never undefined, and `call m()` has no arguments
C29_Expressions ==
  \A n \in NodeSet :
    /\ \A i \in 1..Len(ExpressionSlots(n)) : IsExpressionNode(ExpressionSlots(n)[i])
    /\ (EmptyCall /\ n.type = "MacroCall") => n.args = <<>>

\* process() returned with a PutValue whose value is undefined
C29_Witness ==
  /\ pc = "generate"
  /\ \E n \in NodeSet : n.type = "PutValue" /\ n.value = Undefined

\* `call m()` was parsed into a MacroCall with the one argument undefined
C29_EmptyCall ==
  /\ EmptyCall
  /\ pc = "generate"
  /\ \E n \in NodeSet : n.type = "MacroCall" /\ n.args = <<Undefined>>

\* what Parser.expression returns is one expression node or undefined
C29_OneOrNone ==
  \A n \in NodeSet :
    \A i \in 1..Len(ExpressionSlots(n)) :
      ExpressionSlots(n)[i] = Undefined \/ IsExpressionNode(ExpressionSlots(n)[i])

\* an expression of no token was accepted as the condition of an if, the
\* iterable and the filter of a for, the value of a set, and a filter
C29_EveryPlace ==
  /\ pc \in {"generate", "translate"}
  /\ \E n \in NodeSet : \E i \in 1..Len(ExpressionSlots(n)) :
       n.type \in {"Arm", "ForLoop", "Assign"} /\ ExpressionSlots(n)[i] = Undefined

====
